---- MODULE Spec2Model ----
(***************************************************************************)
(* Model of the parts controller of electronics-inventory-backend: the     *)
(* lot consumption handler cutInventory running as concurrent async        *)
(* requests over the one process-wide SQLite connection.                   *)
(*                                                                         *)
(* The repository holds two builds of the controller: the one whose        *)
(* cutInventory brackets its writes with BEGIN TRANSACTION / COMMIT        *)
(* (unnamed/part_003) and the one whose cutInventory issues the UPDATE and *)
(* the INSERT as two auto-committed statements                             *)
(* (src/controllers/partsController.ts).  The variable `controller` says   *)
(* which build is deployed; it is chosen at start-up and never changes.    *)
(*                                                                         *)
(* Every `await dbAsync.*` is a suspension point: one action executes one  *)
(* store statement together with the handler code that runs up to the next *)
(* await.                                                                  *)
(*                                                                         *)
(* Specifications:                                                         *)
(*   Spec        concurrent cutInventory requests                          *)
(*   SpecFault   the same with failing store statements and a getParts     *)
(*   SpecDelete  concurrent deletePart requests                            *)
(*   SpecQuery   the predicate compiler of getParts (unnamed/part_003)     *)
(*   SpecList    the listing of getParts over the three filters            *)
(*   SpecAuth    authenticateToken, requireAdmin and the route table       *)
(*   SpecSearch  getParts from req.query to the answer, on name, sku and q *)
(*   SpecCatalog createPart, updatePart, deletePart, getPartBySku, one     *)
(*               request after the other                                   *)
(*   SpecShared  every handler in flight at once, with failing statements  *)
(***************************************************************************)
EXTENDS Integers, Sequences, FiniteSets, TLC

\* ---------------------------------------------------------------- bounds
MaxSpec == 2        \* largest default_spec / spec_value of an initial row
MaxQty == 2         \* largest quantity of an initial lot
MaxRequests == 2    \* requests accepted in one behaviour
MaxFaults == 1      \* store statements that fail in one behaviour
MaxTxFaults == 2    \* statements that fail where all handlers share the connection
MaxLen == 4         \* characters of one string query parameter
MaxItems == 2       \* values of one repeated query parameter
MaxItemLen == 1     \* characters of one value of a repeated query parameter

\* ------------------------------------------------------------ vocabulary
Req == {1, 2}                         \* slots of the request handlers in flight
Controllers == {"tx", "plain"}        \* part_003 / partsController.ts
UseAmounts == (-1) .. (MaxSpec + 1)   \* 0 stands for every falsy useAmount

VARIABLES
    controller,     \* which build of cutInventory is deployed
    parts_catalog,  \* table parts_catalog as the connection sees it
    inventory,      \* table inventory as the connection sees it; id = index
    disk,           \* the committed tables
    inTx,           \* the connection has an open transaction
    now,            \* CURRENT_TIMESTAMP, a logical clock: one tick per request
    req,            \* per handler: position, req.body, locals, response
    served,         \* number of requests accepted so far
    material,       \* initial total material minus the useAmount of every 200
    part_suppliers, \* table part_suppliers as the connection sees it
    faults,         \* store statements that will still fail
    listing,        \* the last answer of getParts
    adm,            \* per handler of a catalog request: position, sku, response
    query,          \* getParts: req.query, and the statement built from it
    http            \* one request on its way through the router of /parts

\* What no store statement touches.
routeVars == <<query, http>>

\* What the cut handler never touches.
sideVars == <<part_suppliers, faults, listing, adm, routeVars>>

vars == <<controller, parts_catalog, inventory, disk, inTx, now, req, served, material,
          sideVars>>

\* ------------------------------------------------------------ the tables
\* CREATE TABLE inventory
Row(sku, loc, q, s, c, t) ==
    [part_sku |-> sku, location_code |-> loc, quantity |-> q,
     spec_value |-> s, condition |-> c, last_updated |-> t]

\* CREATE TABLE parts_catalog (the columns cutInventory reads)
CatalogRow(d) == [default_spec |-> d]

\* CREATE TABLE parts_catalog (the columns getParts filters on as well)
PartRow(d, cat, pkg) == [default_spec |-> d, category |-> cat, package_code |-> pkg]

\* CREATE TABLE part_suppliers
SupplierRow(sku, code) == [part_sku |-> sku, supplier_code |-> code]

NoResponse == [status |-> 0, error |-> "", original_id |-> 0, remaining_spec |-> 0]

\* res.status(code).json({error})
ErrorResponse(code, msg) ==
    [status |-> code, error |-> msg, original_id |-> 0, remaining_spec |-> 0]

\* res.json({success, message, original_id, remaining_spec})
CutResponse(id, rem) ==
    [status |-> 200, error |-> "", original_id |-> id, remaining_spec |-> rem]

\* A row of the SELECT of cutInventory: i.* and p.default_spec; id = 0 is the
\* undefined that dbAsync.get yields when no row matches.
Item(id, row, d) ==
    [id |-> id, part_sku |-> row.part_sku, location_code |-> row.location_code,
     quantity |-> row.quantity, spec_value |-> row.spec_value,
     condition |-> row.condition, default_spec |-> d]

NoItem == Item(0, Row("", "", 0, 0, "", 0), 0)

\* res.status(code).send() and res.status(code).json({message})
EmptyResponse(code) ==
    [status |-> code, error |-> "", original_id |-> 0, remaining_spec |-> 0]

\* A handler of createPart, updatePart or deletePart that has not started.
IdleAdm == [pc |-> "idle", sku |-> "", res |-> NoResponse]

IdleReq ==
    [pc |-> "idle", inventoryId |-> 0, useAmount |-> 0, item |-> NoItem,
     remainingSpec |-> 0, res |-> NoResponse,
     pre |-> <<>>, alone |-> FALSE]

\* ------------------------------------------------------- store statements
\* SELECT i.*, p.default_spec FROM inventory i JOIN parts_catalog p
\*   ON i.part_sku = p.sku WHERE i.id = ?
SelectItem(id) ==
    IF id \in DOMAIN inventory /\ inventory[id].part_sku \in DOMAIN parts_catalog
    THEN Item(id, inventory[id], parts_catalog[inventory[id].part_sku].default_spec)
    ELSE NoItem

CurrentSpecStored(item) == item.spec_value

\* const currentSpec = item.condition === "NEW" ? item.default_spec : item.spec_value
CurrentSpec(item) ==
    IF item.condition = "NEW" THEN item.default_spec ELSE item.spec_value

ItemCheckSpecFirst(item, u) ==
    IF item.id = 0
    THEN ErrorResponse(404, "Inventory item not found")
    ELSE IF CurrentSpec(item) - u < 0
    THEN ErrorResponse(400, "Use amount exceeds current spec")
    ELSE IF item.quantity < 1
    THEN ErrorResponse(400, "Insufficient quantity")
    ELSE NoResponse

ItemCheckBelowZero(item, u) ==
    IF item.id = 0
    THEN ErrorResponse(404, "Inventory item not found")
    ELSE IF item.quantity < 0
    THEN ErrorResponse(400, "Insufficient quantity")
    ELSE IF CurrentSpec(item) - u < 0
    THEN ErrorResponse(400, "Use amount exceeds current spec")
    ELSE NoResponse

ItemCheckNoSpecLimit(item, u) ==
    IF item.id = 0
    THEN ErrorResponse(404, "Inventory item not found")
    ELSE IF item.quantity < 1
    THEN ErrorResponse(400, "Insufficient quantity")
    ELSE NoResponse

\* if (!item) 404; if (item.quantity < 1) 400; if (remainingSpec < 0) 400.
\* NoResponse: every check passed.
ItemCheck(item, u) ==
    IF item.id = 0
    THEN ErrorResponse(404, "Inventory item not found")
    ELSE IF item.quantity < 1
    THEN ErrorResponse(400, "Insufficient quantity")
    ELSE IF CurrentSpec(item) - u < 0
    THEN ErrorResponse(400, "Use amount exceeds current spec")
    ELSE NoResponse

UpdateInventoryNoTouch(inv, id) ==
    IF id \in DOMAIN inv
    THEN [inv EXCEPT ![id].quantity = @ - 1]
    ELSE inv

\* UPDATE inventory SET quantity = quantity - 1, last_updated = CURRENT_TIMESTAMP
\*   WHERE id = ?
UpdateInventory(inv, id) ==
    IF id \in DOMAIN inv
    THEN [inv EXCEPT ![id].quantity = @ - 1, ![id].last_updated = now]
    ELSE inv

InsertScrapAsSource(inv, it, rem) ==
    Append(inv, Row(it.part_sku, it.location_code, 1, rem, it.condition, now))

InsertScrapCopiesQuantity(inv, it, rem) ==
    Append(inv, Row(it.part_sku, it.location_code, it.quantity, rem, "SCRAP", now))

\* INSERT INTO inventory (part_sku, location_code, quantity, spec_value, condition)
\*   VALUES (?, ?, 1, ?, 'SCRAP')      -- last_updated DEFAULT CURRENT_TIMESTAMP
InsertScrap(inv, it, rem) ==
    Append(inv, Row(it.part_sku, it.location_code, 1, rem, "SCRAP", now))

\* A write outside a transaction is committed at once (autocommit).
Committed(inv) ==
    IF inTx THEN disk ELSE [disk EXCEPT !.inventory = inv]

\* ------------------------------------------------------- total material
\* Effective spec of a row as the data model defines it: the catalog
\* default_spec of a NEW row, the stored spec_value of a SCRAP row.
EffectiveSpec(row, cat) ==
    IF row.condition = "NEW"
    THEN (IF row.part_sku \in DOMAIN cat THEN cat[row.part_sku].default_spec ELSE 0)
    ELSE row.spec_value

\* Sum over all inventory rows of quantity times effective spec.
RECURSIVE TotalMaterial(_, _)
TotalMaterial(inv, cat) ==
    IF inv = <<>> THEN 0
    ELSE LET row == inv[Len(inv)]
         IN TotalMaterial(SubSeq(inv, 1, Len(inv) - 1), cat)
              + row.quantity * EffectiveSpec(row, cat)

\* ------------------------------------------------------------- getParts
\* req.query of getParts: "" is an absent (falsy) parameter.
NoFilter == [supplier_code |-> "", category |-> "", package_code |-> ""]

\* One row of an answer of getParts: the part and the columns of its lot.
\* The id tells the rows of two lots apart also where the SELECT list has
\* no i.id.
ListedLot(id, row) ==
    [sku |-> row.part_sku, lot |-> TRUE, id |-> id,
     quantity |-> row.quantity, condition |-> row.condition]

\* The row of a part without lot: LEFT JOIN yields NULL in every i column.
ListedPart(sku) ==
    [sku |-> sku, lot |-> FALSE, id |-> 0, quantity |-> 0, condition |-> ""]

\* parts_catalog p LEFT JOIN inventory i ON p.sku = i.part_sku, for one p
LeftJoinInventory(sku) ==
    LET lots == {i \in DOMAIN inventory : inventory[i].part_sku = sku}
    IN IF lots = {} THEN {ListedPart(sku)}
       ELSE {ListedLot(i, inventory[i]) : i \in lots}

\* ... JOIN part_suppliers s ON p.sku = s.part_sku ... s.supplier_code = ?
SuppliedBy(sku, code) ==
    \E s \in part_suppliers : s.part_sku = sku /\ s.supplier_code = code

\* getParts of unnamed/part_003 for a query with at most the single-valued
\* facets supplier_code, category, package_code: the catalog-centric SELECT.
GetPartsCatalog(f) ==
    UNION {LeftJoinInventory(sku) :
             sku \in {p \in DOMAIN parts_catalog :
                        /\ f.supplier_code = "" \/ SuppliedBy(p, f.supplier_code)
                        /\ f.package_code = ""
                              \/ parts_catalog[p].package_code = f.package_code
                        /\ f.category = ""
                              \/ parts_catalog[p].category = f.category}}

\* getParts of src/controllers/partsController.ts: the supplier branch, or
\* the inventory-centric SELECT ... WHERE i.quantity > 0 [AND ...].
GetPartsInventory(f) ==
    IF f.supplier_code # ""
    THEN UNION {LeftJoinInventory(sku) :
                  sku \in {p \in DOMAIN parts_catalog : SuppliedBy(p, f.supplier_code)}}
    ELSE {ListedLot(i, inventory[i]) :
            i \in {j \in DOMAIN inventory :
                     /\ inventory[j].part_sku \in DOMAIN parts_catalog
                     /\ inventory[j].quantity > 0
                     /\ f.category = ""
                           \/ parts_catalog[inventory[j].part_sku].category = f.category
                     /\ f.package_code = ""
                           \/ parts_catalog[inventory[j].part_sku].package_code
                                = f.package_code}}

\* Some cut has run its UPDATE and not yet its INSERT.
MidCut == \E r \in Req : req[r].pc = "insert"

\* res.json(parts); midCut records whether the rows were read in the middle
\* of a cut.
Listing(rows) == [status |-> 200, rows |-> rows, midCut |-> MidCut]

NoListing == [status |-> 0, rows |-> {}, midCut |-> FALSE]

\* The router and the predicate compiler at rest.
NoQuery == [compiled |-> FALSE]

NoHttp == [pc |-> "idle"]

\* ------------------------------------------------------------------ Init
InitCut ==
    /\ controller \in Controllers
    /\ \E d \in 0 .. MaxSpec :
         parts_catalog = [s \in {"R-100", "W-200"} |->
                            IF s = "R-100" THEN CatalogRow(d) ELSE CatalogRow(2)]
    /\ \E q \in 0 .. MaxQty, s \in 0 .. MaxSpec, c \in {"NEW", "SCRAP"} :
         inventory = << Row("R-100", "A1", q, s, c, 0),
                        Row("W-200", "B2", 1, 1, "SCRAP", 0) >>
    /\ disk = [parts_catalog |-> parts_catalog, inventory |-> inventory,
               part_suppliers |-> part_suppliers]
    /\ inTx = FALSE
    /\ now = 0
    /\ req = [r \in Req |-> IdleReq]
    /\ served = 0
    /\ material = TotalMaterial(inventory, parts_catalog)

\* No supplier is on file, no statement fails, nothing has been listed.
Init ==
    /\ part_suppliers = {}
    /\ InitCut
    /\ faults = 0
    /\ listing = NoListing
    /\ adm = [a \in Req |-> IdleAdm]
    /\ query = NoQuery
    /\ http = NoHttp

\* --------------------------------------------------------------- actions
\* A response is sent: the handler is over.
Respond(r, response) ==
    req' = [req EXCEPT ![r].pc = "done", ![r].res = response]

\* POST /parts/cut arrives: const {inventoryId, useAmount} = req.body, the
\* required-fields check, and the call of the SELECT.
Receive(r) ==
    /\ req[r].pc \in {"idle", "done"}
    /\ \A o \in Req : o < r => req[o].pc \notin {"idle", "done"}   \* first free slot
    /\ served < MaxRequests
    /\ served' = served + 1
    /\ now' = now + 1
    /\ \E id \in 0 .. (Len(inventory) + 1), u \in UseAmounts :
         LET fresh == [IdleReq EXCEPT !.inventoryId = id, !.useAmount = u,
                                      !.pre = inventory,
                                      !.alone = \A o \in Req \ {r} :
                                                   req[o].pc \in {"idle", "done"}]
             \* a finished handler's response is gone once the next request is in
             others == [o \in Req |-> IF req[o].pc = "done" THEN IdleReq
                                       ELSE [req[o] EXCEPT !.alone = FALSE]]
         IN req' = [others EXCEPT ![r] =
                      IF id = 0 \/ u = 0
                      THEN [fresh EXCEPT !.pc = "done",
                              !.res = ErrorResponse(400, "Inventory ID and use amount are required")]
                      ELSE [fresh EXCEPT !.pc = "get"]]
    /\ UNCHANGED <<controller, parts_catalog, inventory, disk, inTx, material>>
    /\ UNCHANGED sideVars

\* The SELECT returns; the three checks on the item; then BEGIN TRANSACTION
\* (part_003) or the UPDATE (partsController.ts) is called.
Get(r) ==
    /\ req[r].pc = "get"
    /\ LET item == SelectItem(req[r].inventoryId)
           failure == ItemCheck(item, req[r].useAmount)
       IN IF failure # NoResponse
          THEN Respond(r, failure)
          ELSE req' = [req EXCEPT ![r].item = item,
                                  ![r].remainingSpec = CurrentSpec(item) - req[r].useAmount,
                                  ![r].pc = IF controller = "tx" THEN "begin"
                                            ELSE "update"]
    /\ UNCHANGED <<controller, parts_catalog, inventory, disk, inTx, now, served, material>>
    /\ UNCHANGED sideVars

\* await dbAsync.run("BEGIN TRANSACTION"), outside the inner try: SQLite
\* refuses a BEGIN inside an open transaction, the outer catch answers 500.
Begin(r) ==
    /\ req[r].pc = "begin"
    /\ IF inTx
       THEN /\ Respond(r, ErrorResponse(500, "Internal Server Error"))
            /\ UNCHANGED inTx
       ELSE /\ inTx' = TRUE
            /\ req' = [req EXCEPT ![r].pc = "update"]
    /\ UNCHANGED <<controller, parts_catalog, inventory, disk, now, served, material>>
    /\ UNCHANGED sideVars

\* The response of a successful cut.
Success(r) ==
    /\ Respond(r, CutResponse(req[r].inventoryId, req[r].remainingSpec))
    /\ material' = material - req[r].useAmount

\* The UPDATE runs; if (remainingSpec > 0) the INSERT is called, else COMMIT
\* (part_003) or the response (partsController.ts).
Update(r) ==
    /\ req[r].pc = "update"
    /\ inventory' = UpdateInventory(inventory, req[r].inventoryId)
    /\ disk' = Committed(inventory')
    /\ IF req[r].remainingSpec > 0
       THEN /\ req' = [req EXCEPT ![r].pc = "insert"]
            /\ UNCHANGED material
       ELSE IF controller = "tx"
       THEN /\ req' = [req EXCEPT ![r].pc = "commit"]
            /\ UNCHANGED material
       ELSE Success(r)
    /\ UNCHANGED <<controller, parts_catalog, inTx, now, served>>
    /\ UNCHANGED sideVars

\* The INSERT of the SCRAP remainder runs; then COMMIT or the response.
Insert(r) ==
    /\ req[r].pc = "insert"
    /\ inventory' = InsertScrap(inventory, req[r].item, req[r].remainingSpec)
    /\ disk' = Committed(inventory')
    /\ IF controller = "tx"
       THEN /\ req' = [req EXCEPT ![r].pc = "commit"]
            /\ UNCHANGED material
       ELSE Success(r)
    /\ UNCHANGED <<controller, parts_catalog, inTx, now, served>>
    /\ UNCHANGED sideVars

\* await dbAsync.run("COMMIT"); res.json({...})
Commit(r) ==
    /\ req[r].pc = "commit"
    /\ inTx
    /\ inTx' = FALSE
    /\ disk' = [parts_catalog |-> parts_catalog, inventory |-> inventory,
                part_suppliers |-> part_suppliers]
    /\ Success(r)
    /\ UNCHANGED <<controller, parts_catalog, inventory, now, served>>
    /\ UNCHANGED sideVars

Next ==
    \/ \E r \in Req : Receive(r)
    \/ \E r \in Req : Get(r)
    \/ \E r \in Req : Begin(r)
    \/ \E r \in Req : Update(r)
    \/ \E r \in Req : Insert(r)
    \/ \E r \in Req : Commit(r)

Spec == Init /\ [][Next]_vars

\* ------------------------------------------------- store failures, reads
\* GET /parts arrives and its one SELECT runs on the connection: the rows
\* are those of the connection's view, committed or not.
GetParts(f) ==
    /\ served < MaxRequests
    /\ served' = served + 1
    /\ listing' = Listing(IF controller = "tx" THEN GetPartsCatalog(f)
                          ELSE GetPartsInventory(f))
    /\ UNCHANGED <<controller, parts_catalog, inventory, disk, inTx, now, req,
                   material, part_suppliers, faults, adm>>
    /\ UNCHANGED routeVars

\* The UPDATE, the INSERT or the COMMIT of a cut throws and writes nothing:
\* the inner catch calls ROLLBACK (part_003); the only catch answers 500
\* (partsController.ts).
StatementFails(r) ==
    /\ req[r].pc \in {"update", "insert", "commit"}
    /\ faults > 0
    /\ faults' = faults - 1
    /\ IF controller = "tx"
       THEN req' = [req EXCEPT ![r].pc = "rollback"]
       ELSE Respond(r, ErrorResponse(500, "Internal Server Error"))
    /\ UNCHANGED <<controller, parts_catalog, inventory, disk, inTx, now, served,
                   material, part_suppliers, listing, adm>>
    /\ UNCHANGED routeVars

\* await dbAsync.run("ROLLBACK"); throw err; and the outer catch answers 500.
Rollback(r) ==
    /\ req[r].pc = "rollback"
    /\ inTx' = FALSE
    /\ inventory' = disk.inventory
    /\ parts_catalog' = disk.parts_catalog
    /\ part_suppliers' = disk.part_suppliers
    /\ Respond(r, ErrorResponse(500, "Internal Server Error"))
    /\ UNCHANGED <<controller, disk, now, served, material, faults, listing, adm>>
    /\ UNCHANGED routeVars

InitFault ==
    /\ part_suppliers = {}
    /\ InitCut
    /\ faults = MaxFaults
    /\ listing = NoListing
    /\ adm = [a \in Req |-> IdleAdm]
    /\ query = NoQuery
    /\ http = NoHttp

NextFault ==
    \/ Next
    \/ GetParts(NoFilter)
    \/ \E r \in Req : StatementFails(r)
    \/ \E r \in Req : Rollback(r)

\* The cut handlers with failing store statements and a reader of the lots.
SpecFault == InitFault /\ [][NextFault]_vars

\* ------------------------------------------------------------ deletePart
Skus == {"R-100", "W-200", "X-404"}   \* req.params.sku; X-404 is in no table

\* A response of a catalog handler is sent: the handler is over.
AdmRespond(a, response) ==
    adm' = [adm EXCEPT ![a].pc = "done", ![a].res = response]

\* DELETE /parts/:sku arrives from an admin and the SELECT of the existence
\* check is called.  `pre` remembers the committed store at the arrival.
DeleteReceive(a) ==
    /\ adm[a].pc \in {"idle", "done"}
    /\ \A o \in Req : o < a => adm[o].pc \notin {"idle", "done"}   \* first free slot
    /\ served < MaxRequests
    /\ served' = served + 1
    /\ \E sku \in Skus :
         adm' = [adm EXCEPT ![a] = [op |-> "deletePart", pc |-> "select", sku |-> sku,
                                    res |-> NoResponse, pre |-> disk]]
    /\ UNCHANGED <<controller, parts_catalog, inventory, disk, inTx, now, req,
                   material, part_suppliers, faults, listing>>
    /\ UNCHANGED routeVars

\* The SELECT returns: 404 if no catalog row, else BEGIN TRANSACTION is called.
DeleteSelect(a) ==
    /\ adm[a].pc = "select"
    /\ IF adm[a].sku \notin DOMAIN parts_catalog
       THEN AdmRespond(a, ErrorResponse(404, "Part not found"))
       ELSE adm' = [adm EXCEPT ![a].pc = "begin"]
    /\ UNCHANGED <<controller, parts_catalog, inventory, disk, inTx, now, req,
                   served, material, part_suppliers, faults, listing>>
    /\ UNCHANGED routeVars

\* BEGIN TRANSACTION, outside the inner try: refused inside an open
\* transaction, and then the outer catch answers 500.
DeleteBegin(a) ==
    /\ adm[a].pc = "begin"
    /\ IF inTx
       THEN /\ AdmRespond(a, ErrorResponse(500, "Internal Server Error"))
            /\ UNCHANGED inTx
       ELSE /\ inTx' = TRUE
            /\ adm' = [adm EXCEPT ![a].pc = "suppliers"]
    /\ UNCHANGED <<controller, parts_catalog, inventory, disk, now, req,
                   served, material, part_suppliers, faults, listing>>
    /\ UNCHANGED routeVars

DeleteSuppliersLeavesRows(a) ==
    /\ adm[a].pc = "suppliers"
    /\ adm' = [adm EXCEPT ![a].pc = "catalog"]
    /\ UNCHANGED <<controller, parts_catalog, inventory, disk, inTx, now, req,
                   served, material, part_suppliers, faults, listing>>
    /\ UNCHANGED routeVars

\* DELETE FROM part_suppliers WHERE part_sku = ?
DeleteSuppliers(a) ==
    /\ adm[a].pc = "suppliers"
    /\ part_suppliers' = {s \in part_suppliers : s.part_sku # adm[a].sku}
    /\ adm' = [adm EXCEPT ![a].pc = "catalog"]
    /\ UNCHANGED <<controller, parts_catalog, inventory, disk, inTx, now, req,
                   served, material, faults, listing>>
    /\ UNCHANGED routeVars

\* DELETE FROM parts_catalog WHERE sku = ?  Foreign keys are declared and
\* never switched on, so the lots of the part do not stop the statement.
DeleteCatalog(a) ==
    /\ adm[a].pc = "catalog"
    /\ parts_catalog' = [p \in DOMAIN parts_catalog \ {adm[a].sku} |-> parts_catalog[p]]
    /\ adm' = [adm EXCEPT ![a].pc = "commit"]
    /\ UNCHANGED <<controller, inventory, disk, inTx, now, req,
                   served, material, part_suppliers, faults, listing>>
    /\ UNCHANGED routeVars

\* COMMIT; res.status(204).send()
DeleteCommit(a) ==
    /\ adm[a].pc = "commit"
    /\ inTx
    /\ inTx' = FALSE
    /\ disk' = [parts_catalog |-> parts_catalog, inventory |-> inventory,
                part_suppliers |-> part_suppliers]
    /\ AdmRespond(a, EmptyResponse(204))
    /\ UNCHANGED <<controller, parts_catalog, inventory, now, req,
                   served, material, part_suppliers, faults, listing>>
    /\ UNCHANGED routeVars

\* Two suppliers are on file, one for each part.
InitDelete ==
    /\ part_suppliers = {SupplierRow("R-100", "AKI"), SupplierRow("W-200", "DGK")}
    /\ InitCut
    /\ faults = 0
    /\ listing = NoListing
    /\ adm = [a \in Req |-> IdleAdm]
    /\ query = NoQuery
    /\ http = NoHttp

NextDelete ==
    \/ \E a \in Req : DeleteReceive(a)
    \/ \E a \in Req : DeleteSelect(a)
    \/ \E a \in Req : DeleteBegin(a)
    \/ \E a \in Req : DeleteSuppliers(a)
    \/ \E a \in Req : DeleteCatalog(a)
    \/ \E a \in Req : DeleteCommit(a)

\* Concurrent deletePart requests over the store.
SpecDelete == InitDelete /\ [][NextDelete]_vars

\* ------------------------------------------------- the predicate compiler
\* A string is the sequence of its characters.
Comma == ","
Space == " "
WideSpace == "U+3000"   \* the full-width (ideographic) space
ATilde == "U+00E3"      \* a with tilde
Euro == "U+20AC"        \* the euro sign

\* What \s and String.prototype.trim take for white space.
WhiteSpace == {Space, WideSpace}

\* The character class of the regular expression that splits a description:
\* \s followed by the three characters that the source file holds there,
\* a with tilde, the euro sign and the euro sign again.
DescriptionSeparators == WhiteSpace \cup {ATilde, Euro}

\* All strings over `alphabet` of at most n characters.
Str(alphabet, n) == UNION {[1 .. k -> alphabet] : k \in 0 .. n}

RECURSIVE SplitFrom(_, _, _, _)
SplitFrom(s, seps, i, cur) ==
    IF i > Len(s) THEN <<cur>>
    ELSE IF s[i] \in seps THEN <<cur>> \o SplitFrom(s, seps, i + 1, <<>>)
    ELSE SplitFrom(s, seps, i + 1, Append(cur, s[i]))

\* s.split(","): the pieces between the separators, empty pieces included.
Split(s, seps) == SplitFrom(s, seps, 1, <<>>)

RECURSIVE SplitRunsFrom(_, _, _, _)
SplitRunsFrom(s, seps, i, cur) ==
    IF i > Len(s) THEN <<cur>>
    ELSE IF s[i] \in seps
    THEN IF i < Len(s) /\ s[i + 1] \in seps
         THEN SplitRunsFrom(s, seps, i + 1, cur)
         ELSE <<cur>> \o SplitRunsFrom(s, seps, i + 1, <<>>)
    ELSE SplitRunsFrom(s, seps, i + 1, Append(cur, s[i]))

\* s.split(/[...]+/): a run of separators separates once.
SplitRuns(s, seps) == SplitRunsFrom(s, seps, 1, <<>>)

RECURSIVE TrimStart(_)
TrimStart(s) ==
    IF s # <<>> /\ Head(s) \in WhiteSpace THEN TrimStart(Tail(s)) ELSE s

RECURSIVE TrimEnd(_)
TrimEnd(s) ==
    IF s # <<>> /\ s[Len(s)] \in WhiteSpace
    THEN TrimEnd(SubSeq(s, 1, Len(s) - 1))
    ELSE s

\* v.trim()
Trim(s) == TrimEnd(TrimStart(s))

\* The test of .filter(v => v) on a string: the empty string is falsy.
NonEmpty(s) == s # <<>>

RECURSIVE Join(_, _)
\* items.join(sep)
Join(items, sep) ==
    IF items = <<>> THEN <<>>
    ELSE IF Len(items) = 1 THEN items[1]
    ELSE items[1] \o <<sep>> \o Join(Tail(items), sep)

\* A value of req.query: absent, one string, or the array of a repeated
\* parameter.
Absent == [kind |-> "absent", items |-> <<>>]

StringValue(s) == [kind |-> "string", items |-> <<s>>]

ArrayValue(items) == [kind |-> "array", items |-> items]

\* if (value): undefined and "" are falsy, an array never is.
Truthy(v) == v.kind = "array" \/ (v.kind = "string" /\ v.items[1] # <<>>)

\* String(value) and `${value}`: an array is joined with commas.
StringOf(v) == IF v.kind = "array" THEN Join(v.items, Comma) ELSE v.items[1]

\* `%${value}%`
Wrap(s) == <<"%">> \o s \o <<"%">>

\* One piece of the query text and the `if` block that appended it; the
\* text "?" alone is a placeholder.
Clause(text, of) == [text |-> text, of |-> of]

Placeholder(of) == Clause("?", of)

\* One entry of params: the bound value and the `if` block that pushed it.
Param(of, value) == [of |-> of, bound |-> value]

\* A fragment of the statement: text and parameters appended together.
Fragment(sql, params) == [sql |-> sql, params |-> params]

Nothing == Fragment(<<>>, <<>>)

\* let sql = `SELECT DISTINCT p.*, ... WHERE true`; const params = []
BaseQuery ==
    Fragment(<<Clause("SELECT DISTINCT p.*, i.id as inventory_id, i.location_code, i.quantity, i.condition, i.spec_value FROM parts_catalog p LEFT JOIN inventory i ON p.sku = i.part_sku LEFT JOIN part_suppliers s ON p.sku = s.part_sku WHERE true", "base")>>,
             <<>>)

LikeFacetInlinesValue(facet, text, v) ==
    IF Truthy(v)
    THEN Fragment(<<Clause(text, facet)>>
                    \o [i \in 1 .. Len(StringOf(v)) |-> Clause(StringOf(v)[i], facet)]
                    \o <<Placeholder(facet)>>,
                  <<Param(facet, StringValue(Wrap(StringOf(v))))>>)
    ELSE Nothing

\* if (name) { sql += " AND p.name LIKE ?"; params.push(`%${name}%`) }, and
\* the same for sku
LikeFacet(facet, text, v) ==
    IF Truthy(v)
    THEN Fragment(<<Clause(text, facet), Placeholder(facet)>>,
                  <<Param(facet, StringValue(Wrap(StringOf(v))))>>)
    ELSE Nothing

\* if (supplier_code) { sql += " AND s.supplier_code = ?";
\*                      params.push(supplier_code) }
EqualFacet(facet, text, v) ==
    IF Truthy(v)
    THEN Fragment(<<Clause(text, facet), Placeholder(facet)>>, <<Param(facet, v)>>)
    ELSE Nothing

\* const toArray = (val) => Array.isArray(val) ? val
\*     : String(val).split(",").map(v => v.trim()).filter(v => v)
toArray(v) ==
    IF v.kind = "array" THEN v.items
    ELSE LET pieces == Split(StringOf(v), {Comma})
         IN SelectSeq([i \in 1 .. Len(pieces) |-> Trim(pieces[i])], NonEmpty)

RECURSIVE OrPlaceholders(_, _, _)
\* values.map(() => "?").join(" OR p.column = ")
OrPlaceholders(facet, text, n) ==
    IF n = 1 THEN <<Placeholder(facet)>>
    ELSE <<Placeholder(facet), Clause(text, facet)>> \o OrPlaceholders(facet, text, n - 1)

\* if (package_code) { const packages = toArray(package_code);
\*   if (packages.length > 0) { sql += ` AND (p.package_code = ${placeholder})`;
\*                              params.push(...packages) } }, and the same for
\* category
OrFacet(facet, open, or, v) ==
    IF Truthy(v) /\ Len(toArray(v)) > 0
    THEN LET values == toArray(v)
         IN Fragment(<<Clause(open, facet)>> \o OrPlaceholders(facet, or, Len(values))
                       \o <<Clause(")", facet)>>,
                     [i \in 1 .. Len(values) |-> Param(facet, StringValue(values[i]))])
    ELSE Nothing

\* String(description).split(/[\s...]+/).filter(w => w)
Words(v) == SelectSeq(SplitRuns(StringOf(v), DescriptionSeparators), NonEmpty)

RECURSIVE WordClauses(_)
\* for (const word of words) { sql += " AND p.description LIKE ?";
\*                             params.push(`%${word}%`) }
WordClauses(words) ==
    IF words = <<>> THEN Nothing
    ELSE LET rest == WordClauses(Tail(words))
         IN Fragment(<<Clause(" AND p.description LIKE ", "description"),
                       Placeholder("description")>> \o rest.sql,
                     <<Param("description", StringValue(Wrap(Head(words))))>>
                       \o rest.params)

\* if (description) { ... }
DescriptionFacet(v) == IF Truthy(v) THEN WordClauses(Words(v)) ELSE Nothing

QFacetOnePush(v) ==
    IF Truthy(v)
    THEN Fragment(<<Clause(" AND (p.sku LIKE ", "q"), Placeholder("q"),
                    Clause(" OR p.name LIKE ", "q"), Placeholder("q"),
                    Clause(")", "q")>>,
                  <<Param("q", StringValue(Wrap(StringOf(v))))>>)
    ELSE Nothing

\* if (q) { sql += " AND (p.sku LIKE ? OR p.name LIKE ?)";
\*          const keyword = `%${q}%`; params.push(keyword, keyword) }
QFacet(v) ==
    IF Truthy(v)
    THEN Fragment(<<Clause(" AND (p.sku LIKE ", "q"), Placeholder("q"),
                    Clause(" OR p.name LIKE ", "q"), Placeholder("q"),
                    Clause(")", "q")>>,
                  <<Param("q", StringValue(Wrap(StringOf(v)))),
                    Param("q", StringValue(Wrap(StringOf(v))))>>)
    ELSE Nothing

\* The facets in the order of their `if` blocks.
Facets == <<"name", "sku", "supplier_code", "package_code", "category", "description", "q">>

\* The fragment that the `if` block of one facet appends.
FacetFragment(facet, v) ==
    CASE facet = "name" -> LikeFacet("name", " AND p.name LIKE ", v)
      [] facet = "sku" -> LikeFacet("sku", " AND p.sku LIKE ", v)
      [] facet = "supplier_code" -> EqualFacet("supplier_code", " AND s.supplier_code = ", v)
      [] facet = "package_code" ->
             OrFacet("package_code", " AND (p.package_code = ", " OR p.package_code = ", v)
      [] facet = "category" ->
             OrFacet("category", " AND (p.category = ", " OR p.category = ", v)
      [] facet = "description" -> DescriptionFacet(v)
      [] facet = "q" -> QFacet(v)

RECURSIVE AppendFacets(_, _, _)
\* The `if` blocks from the i-th on, run on the statement built so far.
AppendFacets(built, filters, i) ==
    IF i > Len(Facets) THEN built
    ELSE LET more == FacetFragment(Facets[i], filters[Facets[i]])
         IN AppendFacets(Fragment(built.sql \o more.sql, built.params \o more.params),
                         filters, i + 1)

\* The statement that getParts hands to dbAsync.all(sql, params).
BuildQuery(filters) == AppendFacets(BaseQuery, filters, 1)

\* The values that one query parameter takes, over an alphabet.
Values(alphabet) ==
    {Absent}
      \cup {StringValue(x) : x \in Str(alphabet, MaxLen)}
      \cup {ArrayValue(xs) :
               xs \in UNION {[1 .. k -> Str(alphabet, MaxItemLen)] : k \in 1 .. MaxItems}}

\* The characters that matter to each facet.
Alphabet(facet) ==
    CASE facet \in {"package_code", "category"} -> {"a", Comma, Space}
      [] facet = "description" -> {"a", Space, WideSpace, Euro}
      [] OTHER -> {"a", "b"}

FacetNames == {Facets[i] : i \in 1 .. Len(Facets)}

\* The store with two parts and two lots, and no request in flight.
InitAtRest ==
    /\ parts_catalog = [p \in {"R-100", "W-200"} |-> CatalogRow(MaxSpec)]
    /\ inventory = << Row("R-100", "A1", 1, 0, "NEW", 0),
                      Row("W-200", "B2", 1, 1, "SCRAP", 0) >>
    /\ part_suppliers = {}
    /\ disk = [parts_catalog |-> parts_catalog, inventory |-> inventory,
               part_suppliers |-> part_suppliers]
    /\ inTx = FALSE
    /\ now = 0
    /\ req = [r \in Req |-> IdleReq]
    /\ served = 0
    /\ material = TotalMaterial(inventory, parts_catalog)
    /\ faults = 0
    /\ listing = NoListing
    /\ adm = [a \in Req |-> IdleAdm]

\* The other parameters of a query: none, one, or all of them given as "a".
Backgrounds ==
    {g \in [FacetNames -> {Absent, StringValue(<<"a">>)}] :
       LET given == Cardinality({facet \in FacetNames : g[facet] # Absent})
       IN given <= 1 \/ given = Cardinality(FacetNames)}

\* GET /parts of unnamed/part_003 has arrived with its req.query: one facet
\* takes every value, over one of the backgrounds.
InitQuery ==
    /\ controller = "tx"
    /\ InitAtRest
    /\ \E facet \in FacetNames, g \in Backgrounds :
          \E v \in Values(Alphabet(facet)) :
             query = [compiled |-> FALSE, filters |-> [g EXCEPT ![facet] = v],
                      sql |-> <<>>, params |-> <<>>]
    /\ http = NoHttp

\* getParts runs up to its await: the statement is built.
CompileQuery ==
    /\ ~query.compiled
    /\ LET built == BuildQuery(query.filters)
       IN query' = [query EXCEPT !.compiled = TRUE, !.sql = built.sql,
                                 !.params = built.params]
    /\ UNCHANGED <<controller, parts_catalog, inventory, disk, inTx, now, req, served,
                   material, part_suppliers, faults, listing, adm, http>>

NextQuery == CompileQuery

\* The predicate compiler of getParts on every req.query.
SpecQuery == InitQuery /\ [][NextQuery]_vars

\* ------------------------------------------------------------ the listing
\* req.query of GET /parts in the listing: each parameter absent or a value.
Filters ==
    [supplier_code : {"", "AKI", "DGK"}, category : {"", "Resistor"},
     package_code : {"", "SOP8"}]

\* Three parts, each with a supplier; R-100 and W-200 have one lot each,
\* C-300 has none.
InitList ==
    /\ controller \in Controllers
    /\ parts_catalog = [p \in {"R-100", "W-200", "C-300"} |->
                          IF p = "R-100" THEN PartRow(MaxSpec, "Resistor", "SOP8")
                          ELSE IF p = "W-200" THEN PartRow(MaxSpec, "Wire", "")
                          ELSE PartRow(0, "Resistor", "DIP8")]
    /\ \E q1 \in 0 .. MaxQty, q2 \in 0 .. MaxQty, c \in {"NEW", "SCRAP"} :
         inventory = << Row("R-100", "A1", q1, 0, c, 0),
                        Row("W-200", "B2", q2, 1, "SCRAP", 0) >>
    /\ part_suppliers = {SupplierRow("R-100", "AKI"), SupplierRow("W-200", "DGK"),
                         SupplierRow("C-300", "AKI")}
    /\ disk = [parts_catalog |-> parts_catalog, inventory |-> inventory,
               part_suppliers |-> part_suppliers]
    /\ inTx = FALSE
    /\ now = 0
    /\ req = [r \in Req |-> IdleReq]
    /\ served = 0
    /\ material = TotalMaterial(inventory, parts_catalog)
    /\ faults = 0
    /\ listing = NoListing
    /\ adm = [a \in Req |-> IdleAdm]
    /\ query = NoQuery
    /\ http = NoHttp

NextList == \E f \in Filters : GetParts(f)

\* GET /parts with every combination of the three filters.
SpecList == InitList /\ [][NextList]_vars

\* ---------------------------------------------------- the router of /parts
Methods == {"GET", "POST", "PATCH", "DELETE"}

\* Paths below the mount point: the root, the literal segments, any other
\* single segment.
Paths == {"/", "/cut", "/categories", "/packages", "/R-100"}

\* router.METHOD(path, ...middleware, handler)
Route(method, path, middleware, handler) ==
    [method |-> method, path |-> path, middleware |-> middleware, handler |-> handler]

\* The routes in the order of their registration: src/routes/partsRoutes.ts,
\* and unnamed/part_001 with its two further GET routes.
RouteTable(build) ==
    IF build = "plain"
    THEN << Route("GET", "/", <<>>, "getParts"),
            Route("GET", "/:sku", <<>>, "getPartBySku"),
            Route("POST", "/", <<"requireAdmin">>, "createPart"),
            Route("PATCH", "/:sku", <<"requireAdmin">>, "updatePart"),
            Route("DELETE", "/:sku", <<"requireAdmin">>, "deletePart"),
            Route("POST", "/cut", <<>>, "cutInventory") >>
    ELSE << Route("GET", "/", <<>>, "getParts"),
            Route("GET", "/categories", <<>>, "getCategories"),
            Route("GET", "/packages", <<>>, "getPackage"),
            Route("GET", "/:sku", <<>>, "getPartBySku"),
            Route("POST", "/", <<"requireAdmin">>, "createPart"),
            Route("PATCH", "/:sku", <<"requireAdmin">>, "updatePart"),
            Route("DELETE", "/:sku", <<"requireAdmin">>, "deletePart"),
            Route("POST", "/cut", <<>>, "cutInventory") >>

\* Express matches a route path against the request path: a literal path
\* matches itself, /:sku matches every single segment.
PathMatches(pattern, path) ==
    pattern = path \/ (pattern = "/:sku" /\ path # "/")

\* The index of the first route registered that matches; 0 if none does.
FirstRoute(build, method, path) ==
    LET table == RouteTable(build)
        hits == {i \in 1 .. Len(table) :
                   table[i].method = method /\ PathMatches(table[i].path, path)}
    IN IF hits = {} THEN 0 ELSE CHOOSE i \in hits : \A j \in hits : i <= j

\* The tokens a request may carry, and jwt.verify(token, config.jwtSecret):
\* the role claim of the payload, or "invalid" when verification fails.
Tokens == {"jwt-admin", "jwt-user", "jwt-expired", "jwt-forged"}

Verify(token) ==
    CASE token = "jwt-admin" -> "admin"
      [] token = "jwt-user" -> "user"
      [] OTHER -> "invalid"

\* req.headers["authorization"] as the pieces between its spaces: no header,
\* a scheme alone, scheme and token, scheme and token after two spaces.
Headers ==
    {<<>>, <<"Bearer">>}
      \cup {<<scheme, token>> : scheme \in {"Bearer", "Basic"}, token \in Tokens}
      \cup {<<"Bearer", "", token>> : token \in Tokens}

\* authHeader && authHeader.split(" ")[1]; "" is every falsy outcome
HeaderToken(header) == IF Len(header) >= 2 THEN header[2] ELSE ""

\* A request to /api/parts: the request line, the authorization header,
\* req.user.role once set, the route matched, the handler that ran, and the
\* response of the middleware if it sent one.
Request(method, path, header) ==
    [pc |-> "authenticateToken", method |-> method, path |-> path, header |-> header,
     role |-> "", route |-> 0, ran |-> "", res |-> NoResponse]

\* A middleware answers: the request is over.
Reject(code, msg) ==
    http' = [http EXCEPT !.pc = "done", !.res = ErrorResponse(code, msg)]

\* router.use(authenticateToken)
AuthenticateToken ==
    /\ http.pc = "authenticateToken"
    /\ LET token == HeaderToken(http.header)
       IN IF token = ""
          THEN Reject(401, "Access token required")
          ELSE IF Verify(token) = "invalid"
          THEN Reject(403, "Invalid access token")
          ELSE http' = [http EXCEPT !.role = Verify(token), !.pc = "route"]
    /\ UNCHANGED <<controller, parts_catalog, inventory, disk, inTx, now, req, served,
                   material, part_suppliers, faults, listing, adm, query>>

\* The router looks for the first route of the method and path; without
\* one the request leaves the router for the 404 handler of the app.
MatchRoute ==
    /\ http.pc = "route"
    /\ LET i == FirstRoute(controller, http.method, http.path)
       IN IF i = 0
          THEN Reject(404, "Not Found")
          ELSE http' = [http EXCEPT !.route = i,
                          !.pc = IF RouteTable(controller)[i].middleware = <<>>
                                 THEN "handler" ELSE "requireAdmin"]
    /\ UNCHANGED <<controller, parts_catalog, inventory, disk, inTx, now, req, served,
                   material, part_suppliers, faults, listing, adm, query>>

lacksAdminNoRole(role) == role = ""

\* req.user?.role !== "admin"
lacksAdmin(role) == role # "admin"

\* requireAdmin
RequireAdmin ==
    /\ http.pc = "requireAdmin"
    /\ IF lacksAdmin(http.role)
       THEN Reject(403, "Admin privileges required")
       ELSE http' = [http EXCEPT !.pc = "handler"]
    /\ UNCHANGED <<controller, parts_catalog, inventory, disk, inTx, now, req, served,
                   material, part_suppliers, faults, listing, adm, query>>

\* The handler of the route is called.
RunHandler ==
    /\ http.pc = "handler"
    /\ http' = [http EXCEPT !.pc = "done",
                             !.ran = RouteTable(controller)[http.route].handler]
    /\ UNCHANGED <<controller, parts_catalog, inventory, disk, inTx, now, req, served,
                   material, part_suppliers, faults, listing, adm, query>>

\* One request has reached the router of either build.
InitAuth ==
    /\ controller \in Controllers
    /\ InitAtRest
    /\ query = NoQuery
    /\ \E method \in Methods, path \in Paths, header \in Headers :
          http = Request(method, path, header)

NextAuth ==
    \/ AuthenticateToken
    \/ MatchRoute
    \/ RequireAdmin
    \/ RunHandler

\* The middleware chain of the parts router on every request.
SpecAuth == InitAuth /\ [][NextAuth]_vars

\* -------------------------------------------------------------- the search
\* toupper() of SQLite's LIKE: the ASCII letters compare without case.
Fold(c) == IF c = "A" THEN "a" ELSE IF c = "B" THEN "b" ELSE c

LikeMatchExact(pattern, text) == pattern = text

RECURSIVE LikeMatch(_, _)
\* text LIKE pattern: "%" stands for any run of characters, "_" for any one
\* character, and a letter for itself in either case.
LikeMatch(pattern, text) ==
    IF pattern = <<>> THEN text = <<>>
    ELSE IF Head(pattern) = "%"
    THEN \/ LikeMatch(Tail(pattern), text)
         \/ text # <<>> /\ LikeMatch(pattern, Tail(text))
    ELSE /\ text # <<>>
         /\ Head(pattern) = "_" \/ Fold(Head(pattern)) = Fold(Head(text))
         /\ LikeMatch(Tail(pattern), Tail(text))

\* A catalog row of the search: the sku and the name as character strings.
SearchRow(sku, name) == [sku |-> sku, name |-> name, default_spec |-> 0]

RECURSIVE Where(_, _, _, _, _)
\* The WHERE clause of the built statement on one catalog row, read from the
\* i-th piece of the text on, the j-th parameter being the next one to bind.
Where(sql, params, i, j, row) ==
    IF i > Len(sql) THEN TRUE
    ELSE CASE sql[i].text = " AND p.name LIKE " ->
                 /\ LikeMatch(params[j].bound.items[1], row.name)
                 /\ Where(sql, params, i + 2, j + 1, row)
           [] sql[i].text = " AND p.sku LIKE " ->
                 /\ LikeMatch(params[j].bound.items[1], row.sku)
                 /\ Where(sql, params, i + 2, j + 1, row)
           [] sql[i].text = " AND (p.sku LIKE " ->
                 /\ \/ LikeMatch(params[j].bound.items[1], row.sku)
                    \/ LikeMatch(params[j + 1].bound.items[1], row.name)
                 /\ Where(sql, params, i + 5, j + 2, row)
           [] OTHER -> Where(sql, params, i + 1, j, row)

\* One row of the answer of the search: the part, with no lot joined.
FoundPart(row) == [sku |-> row.sku, name |-> row.name]

\* The characters of the searched q.
SearchAlphabet == {"a", "A", "%", "_"}

\* GET /parts of unnamed/part_003 has arrived with name, sku and q in its
\* req.query; the catalog holds five parts and no lot.
InitSearch ==
    /\ controller = "tx"
    /\ parts_catalog =
          [p \in {<<"a", "b">>, <<"b">>, <<"b", "a", "b">>, <<"a", "%">>, <<"A", "_">>} |->
             SearchRow(p, IF Len(p) = 1 THEN <<"a">> ELSE <<"b">>)]
    /\ inventory = <<>>
    /\ part_suppliers = {}
    /\ disk = [parts_catalog |-> parts_catalog, inventory |-> inventory,
               part_suppliers |-> part_suppliers]
    /\ inTx = FALSE
    /\ now = 0
    /\ req = [r \in Req |-> IdleReq]
    /\ served = 0
    /\ material = 0
    /\ faults = 0
    /\ listing = NoListing
    /\ adm = [a \in Req |-> IdleAdm]
    /\ \E q \in Values(SearchAlphabet), name \in {Absent, StringValue(<<"a">>)},
          sku \in {Absent, StringValue(<<"b">>)} :
          query = [compiled |-> FALSE,
                   filters |-> [facet \in FacetNames |->
                                  CASE facet = "q" -> q
                                    [] facet = "name" -> name
                                    [] facet = "sku" -> sku
                                    [] OTHER -> Absent],
                   sql |-> <<>>, params |-> <<>>]
    /\ http = NoHttp

\* const rows = await dbAsync.all(sql, params); res.json(rows)
ExecuteQuery ==
    /\ query.compiled
    /\ listing = NoListing
    /\ listing' = Listing({FoundPart(parts_catalog[p]) :
                             p \in {s \in DOMAIN parts_catalog :
                                      Where(query.sql, query.params, 1, 1,
                                            parts_catalog[s])}})
    /\ UNCHANGED <<controller, parts_catalog, inventory, disk, inTx, now, req, served,
                   material, part_suppliers, faults, adm, query, http>>

NextSearch == CompileQuery \/ ExecuteQuery

\* getParts from its req.query to its answer, on name, sku and q.
SpecSearch == InitSearch /\ [][NextSearch]_vars

\* -------------------------------------------- values of a request body
\* A property of req.body: missing (undefined), null, or a value.
Undefined == [kind |-> "undefined"]

Null == [kind |-> "null"]

Js(v) == [kind |-> "value", v |-> v]

\* A JSON value: a string, a number (its decimal text) or an object, whose
\* members are in insertion order.
JString(s) == [type |-> "string", text |-> s, members |-> <<>>]

JNumber(s) == [type |-> "number", text |-> s, members |-> <<>>]

JObject(members) == [type |-> "object", text |-> "", members |-> members]

Member(key, value) == [key |-> key, value |-> value]

\* One lexical token of a JSON text: a punctuation mark, a quoted string or
\* a number.
Lex(kind, text) == [lex |-> kind, text |-> text]

RECURSIVE Stringify(_)
RECURSIVE StringifyMembers(_)
StringifyQuotesNumbers(value) ==
    IF value.type = "object"
    THEN <<Lex("{", "")>> \o StringifyMembers(value.members) \o <<Lex("}", "")>>
    ELSE <<Lex("string", value.text)>>

\* JSON.stringify(value): the text, as the sequence of its tokens.
Stringify(value) ==
    IF value.type = "object"
    THEN <<Lex("{", "")>> \o StringifyMembers(value.members) \o <<Lex("}", "")>>
    ELSE <<Lex(value.type, value.text)>>

StringifyMembers(members) ==
    IF members = <<>> THEN <<>>
    ELSE <<Lex("string", Head(members).key), Lex(":", "")>>
           \o Stringify(Head(members).value)
           \o (IF Len(members) > 1
               THEN <<Lex(",", "")>> \o StringifyMembers(Tail(members))
               ELSE <<>>)

RECURSIVE ParseValue(_)
RECURSIVE ParseMembers(_, _)
\* The JSON value at the head of a token sequence, and the tokens after it.
ParseValue(tokens) ==
    IF Head(tokens).lex = "{"
    THEN ParseMembers(Tail(tokens), <<>>)
    ELSE [value |-> [type |-> Head(tokens).lex, text |-> Head(tokens).text,
                     members |-> <<>>],
          rest |-> Tail(tokens)]

\* The members of an object up to its closing brace, after those in `read`.
ParseMembers(tokens, read) ==
    IF Head(tokens).lex = "}"
    THEN [value |-> JObject(read), rest |-> Tail(tokens)]
    ELSE IF Head(tokens).lex = ","
    THEN ParseMembers(Tail(tokens), read)
    ELSE LET inner == ParseValue(Tail(Tail(tokens)))
         IN ParseMembers(inner.rest,
                         Append(read, Member(Head(tokens).text, inner.value)))

\* JSON.parse(text)
JSONParse(text) == ParseValue(text).value

\* The truth value of a body property: undefined, null, "" and 0 are falsy,
\* an object or an array never is.
TruthyText(x) == x.kind = "value" /\ x.v # ""

TruthyNumber(x) == x.kind = "value" /\ x.v # 0

TruthyJson(x) ==
    /\ x.kind = "value"
    /\ x.v.type = "string" => x.v.text # ""
    /\ x.v.type = "number" => x.v.text # "0"

\* Array.isArray(suppliers): the values of suppliers are arrays.
IsArray(x) == x.kind = "value"

\* SQL NULL in a text column.
NULL == "NULL"

\* x || null, bound to a text column
OrNull(x) == IF TruthyText(x) THEN x.v ELSE NULL

\* coalesce(?, column): undefined and null bind as NULL and keep the column.
Coalesce(x, old) == IF x.kind = "value" THEN x.v ELSE old

\* A row of parts_catalog without its key: spec_definition holds the JSON
\* text, empty for NULL.  `given` is no column: it remembers the document
\* that the text was made from.
FullRow(name, category, mpn, package_code, spec_definition, image_url, default_spec, unit, given) ==
    [name |-> name, category |-> category, mpn |-> mpn, package_code |-> package_code,
     spec_definition |-> spec_definition, image_url |-> image_url,
     default_spec |-> default_spec, unit |-> unit, given |-> given]

\* req.body of createPart and updatePart.
Body(sku, category, name, mpn, package_code, spec_definition, image_url, default_spec, unit, suppliers) ==
    [sku |-> sku, category |-> category, name |-> name, mpn |-> mpn,
     package_code |-> package_code, spec_definition |-> spec_definition,
     image_url |-> image_url, default_spec |-> default_spec, unit |-> unit,
     suppliers |-> suppliers]

NoBody ==
    Body(Undefined, Undefined, Undefined, Undefined, Undefined, Undefined, Undefined,
         Undefined, Undefined, Undefined)

InsertedRowNoDefaults(body) ==
    FullRow(body.name.v, body.category.v, OrNull(body.mpn), OrNull(body.package_code),
            Stringify(IF TruthyJson(body.spec_definition) THEN body.spec_definition.v
                      ELSE JObject(<<>>)),
            OrNull(body.image_url),
            IF TruthyNumber(body.default_spec) THEN body.default_spec.v ELSE 0,
            OrNull(body.unit),
            IF TruthyJson(body.spec_definition) THEN body.spec_definition.v
            ELSE JObject(<<>>))

\* The row that the INSERT of createPart writes.
InsertedRow(body) ==
    FullRow(body.name.v, body.category.v, OrNull(body.mpn), OrNull(body.package_code),
            Stringify(IF TruthyJson(body.spec_definition) THEN body.spec_definition.v
                      ELSE JObject(<<>>)),
            OrNull(body.image_url),
            IF TruthyNumber(body.default_spec) THEN body.default_spec.v ELSE 0,
            IF TruthyText(body.unit) THEN body.unit.v ELSE "pcs",
            IF TruthyJson(body.spec_definition) THEN body.spec_definition.v
            ELSE JObject(<<>>))

UpdatedRowOverwrites(old, body) ==
    FullRow(Coalesce(body.name, NULL), Coalesce(body.category, NULL),
            Coalesce(body.mpn, NULL), Coalesce(body.package_code, NULL),
            IF TruthyJson(body.spec_definition) THEN Stringify(body.spec_definition.v)
            ELSE <<>>,
            Coalesce(body.image_url, NULL), Coalesce(body.default_spec, 0),
            Coalesce(body.unit, NULL),
            IF TruthyJson(body.spec_definition) THEN body.spec_definition.v
            ELSE JObject(<<>>))

\* The row after the UPDATE of updatePart: every column is
\* coalesce(?, column), and spec_definition binds
\* spec_definition ? JSON.stringify(spec_definition) : null.
UpdatedRow(old, body) ==
    FullRow(Coalesce(body.name, old.name), Coalesce(body.category, old.category),
            Coalesce(body.mpn, old.mpn), Coalesce(body.package_code, old.package_code),
            IF TruthyJson(body.spec_definition) THEN Stringify(body.spec_definition.v)
            ELSE old.spec_definition,
            Coalesce(body.image_url, old.image_url),
            Coalesce(body.default_spec, old.default_spec),
            Coalesce(body.unit, old.unit),
            IF TruthyJson(body.spec_definition) THEN body.spec_definition.v
            ELSE old.given)

\* The answer of getPartBySku: {...part, spec_definition: part.spec_definition
\*   ? JSON.parse(part.spec_definition) : {}, suppliers}
PartDetails(sku, row, suppliers) ==
    [sku |-> sku, row |-> row,
     spec_definition |-> IF row.spec_definition # <<>> THEN JSONParse(row.spec_definition)
                         ELSE JObject(<<>>),
     suppliers |-> suppliers]

NoPart == [sku |-> ""]

\* ---------------------------------- createPart, updatePart, getPartBySku
\* A handler of createPart, updatePart or getPartBySku at work: which of
\* the three, its position, the sku of the request, req.body, the index of the supplier
\* whose INSERT is next, the row read by getPartBySku, and the committed
\* store when the request arrived.
Handling(op, pc, sku, body) ==
    [op |-> op, pc |-> pc, sku |-> sku, res |-> NoResponse, body |-> body, k |-> 1,
     part |-> NoPart, pre |-> disk]

\* res.status(code).json({message})
MessageResponse(code, message) == [status |-> code, error |-> "", message |-> message]

\* res.json({...part, ...})
DetailsResponse(details) == [status |-> 200, error |-> "", details |-> details]

\* A request is taken by the first free handler slot.
Accept(a) ==
    /\ adm[a].pc \in {"idle", "done"}
    /\ \A o \in Req : o < a => adm[o].pc \notin {"idle", "done"}
    /\ served < MaxRequests
    /\ served' = served + 1

\* await dbAsync.run("BEGIN TRANSACTION"), outside the inner try: refused
\* inside an open transaction, and then the outer catch answers 500.
BeginTransaction(a, next) ==
    IF inTx
    THEN /\ AdmRespond(a, ErrorResponse(500, "Internal Server Error"))
         /\ UNCHANGED inTx
    ELSE /\ inTx' = TRUE
         /\ adm' = [adm EXCEPT ![a].pc = next]

\* await dbAsync.run("COMMIT"), and the response after it.
CommitTransaction(a, response) ==
    /\ inTx
    /\ inTx' = FALSE
    /\ disk' = [parts_catalog |-> parts_catalog, inventory |-> inventory,
                part_suppliers |-> part_suppliers]
    /\ AdmRespond(a, response)

\* POST /parts arrives from an admin: the destructuring of req.body, the
\* required-fields check, and the call of the SELECT of the duplicate check.
CreateReceive(a, bodies) ==
    /\ Accept(a)
    /\ \E body \in bodies :
         adm' = [adm EXCEPT ![a] =
                   IF ~TruthyText(body.sku) \/ ~TruthyText(body.category)
                        \/ ~TruthyText(body.name)
                   THEN [Handling("createPart", "done", "", body) EXCEPT
                           !.res = ErrorResponse(400, "SKU, category, and name are required")]
                   ELSE Handling("createPart", "create.select", body.sku.v, body)]
    /\ UNCHANGED <<controller, parts_catalog, inventory, disk, inTx, now, req,
                   material, part_suppliers, faults, listing>>
    /\ UNCHANGED routeVars

\* The SELECT returns: 409 if the sku is on file, else BEGIN TRANSACTION is
\* called.
CreateSelect(a) ==
    /\ adm[a].pc = "create.select"
    /\ IF adm[a].sku \in DOMAIN parts_catalog
       THEN AdmRespond(a, ErrorResponse(409, "Part with this SKU already exists"))
       ELSE adm' = [adm EXCEPT ![a].pc = "create.begin"]
    /\ UNCHANGED <<controller, parts_catalog, inventory, disk, inTx, now, req,
                   served, material, part_suppliers, faults, listing>>
    /\ UNCHANGED routeVars

CreateBegin(a) ==
    /\ adm[a].pc = "create.begin"
    /\ BeginTransaction(a, "create.insert")
    /\ UNCHANGED <<controller, parts_catalog, inventory, disk, now, req,
                   served, material, part_suppliers, faults, listing>>
    /\ UNCHANGED routeVars

\* INSERT INTO parts_catalog: sku is the primary key, so the statement fails
\* when a row of that sku has appeared since the SELECT.  Then
\* if (Array.isArray(suppliers) && suppliers.length > 0) the first supplier's
\* INSERT is called, else COMMIT.
CreateInsert(a) ==
    /\ adm[a].pc = "create.insert"
    /\ IF adm[a].sku \in DOMAIN parts_catalog
       THEN /\ adm' = [adm EXCEPT ![a].pc = "rollback"]
            /\ UNCHANGED parts_catalog
       ELSE /\ parts_catalog' =
                 [p \in DOMAIN parts_catalog \cup {adm[a].sku} |->
                    IF p = adm[a].sku THEN InsertedRow(adm[a].body)
                    ELSE parts_catalog[p]]
            /\ adm' = [adm EXCEPT ![a].pc =
                         IF IsArray(adm[a].body.suppliers)
                              /\ Len(adm[a].body.suppliers.v) > 0
                         THEN "create.supplier" ELSE "create.commit"]
    /\ UNCHANGED <<controller, inventory, disk, inTx, now, req,
                   served, material, part_suppliers, faults, listing>>
    /\ UNCHANGED routeVars

\* INSERT INTO part_suppliers for the k-th supplier; then the next one or
\* COMMIT.  createPart and updatePart have the same loop.
InsertSupplier(a, commit) ==
    /\ part_suppliers' =
          part_suppliers \cup {SupplierRow(adm[a].sku, adm[a].body.suppliers.v[adm[a].k])}
    /\ adm' = [adm EXCEPT ![a].k = @ + 1,
                          ![a].pc = IF adm[a].k < Len(adm[a].body.suppliers.v)
                                    THEN @ ELSE commit]
    /\ UNCHANGED <<controller, parts_catalog, inventory, disk, inTx, now, req,
                   served, material, faults, listing>>
    /\ UNCHANGED routeVars

CreateSupplier(a) ==
    /\ adm[a].pc = "create.supplier"
    /\ InsertSupplier(a, "create.commit")

\* COMMIT; res.status(201).json({message: "Part created successfully"})
CreateCommit(a) ==
    /\ adm[a].pc = "create.commit"
    /\ CommitTransaction(a, MessageResponse(201, "Part created successfully"))
    /\ UNCHANGED <<controller, parts_catalog, inventory, now, req,
                   served, material, part_suppliers, faults, listing>>
    /\ UNCHANGED routeVars

\* PATCH /parts/:sku arrives from an admin and the SELECT of the existence
\* check is called.
UpdateReceive(a, bodies) ==
    /\ Accept(a)
    /\ \E sku \in Skus, body \in bodies :
         adm' = [adm EXCEPT ![a] = Handling("updatePart", "update.select", sku, body)]
    /\ UNCHANGED <<controller, parts_catalog, inventory, disk, inTx, now, req,
                   material, part_suppliers, faults, listing>>
    /\ UNCHANGED routeVars

\* The SELECT returns: 404 if no catalog row, else BEGIN TRANSACTION is called.
UpdateSelect(a) ==
    /\ adm[a].pc = "update.select"
    /\ IF adm[a].sku \notin DOMAIN parts_catalog
       THEN AdmRespond(a, ErrorResponse(404, "Part not found"))
       ELSE adm' = [adm EXCEPT ![a].pc = "update.begin"]
    /\ UNCHANGED <<controller, parts_catalog, inventory, disk, inTx, now, req,
                   served, material, part_suppliers, faults, listing>>
    /\ UNCHANGED routeVars

UpdateBegin(a) ==
    /\ adm[a].pc = "update.begin"
    /\ BeginTransaction(a, "update.catalog")
    /\ UNCHANGED <<controller, parts_catalog, inventory, disk, now, req,
                   served, material, part_suppliers, faults, listing>>
    /\ UNCHANGED routeVars

\* UPDATE parts_catalog SET ... WHERE sku = ?; then
\* if (Array.isArray(suppliers)) the DELETE is called, else COMMIT.
UpdateCatalog(a) ==
    /\ adm[a].pc = "update.catalog"
    /\ parts_catalog' =
          [p \in DOMAIN parts_catalog |->
             IF p = adm[a].sku THEN UpdatedRow(parts_catalog[p], adm[a].body)
             ELSE parts_catalog[p]]
    /\ adm' = [adm EXCEPT ![a].pc = IF IsArray(adm[a].body.suppliers)
                                    THEN "update.delete" ELSE "update.commit"]
    /\ UNCHANGED <<controller, inventory, disk, inTx, now, req,
                   served, material, part_suppliers, faults, listing>>
    /\ UNCHANGED routeVars

UpdateDeleteLeavesRows(a) ==
    /\ adm[a].pc = "update.delete"
    /\ adm' = [adm EXCEPT ![a].pc = IF Len(adm[a].body.suppliers.v) > 0
                                    THEN "update.supplier" ELSE "update.commit"]
    /\ UNCHANGED <<controller, parts_catalog, inventory, disk, inTx, now, req,
                   served, material, part_suppliers, faults, listing>>
    /\ UNCHANGED routeVars

\* DELETE FROM part_suppliers WHERE part_sku = ?; then the first supplier's
\* INSERT is called, or COMMIT for the empty array.
UpdateDelete(a) ==
    /\ adm[a].pc = "update.delete"
    /\ part_suppliers' = {s \in part_suppliers : s.part_sku # adm[a].sku}
    /\ adm' = [adm EXCEPT ![a].pc = IF Len(adm[a].body.suppliers.v) > 0
                                    THEN "update.supplier" ELSE "update.commit"]
    /\ UNCHANGED <<controller, parts_catalog, inventory, disk, inTx, now, req,
                   served, material, faults, listing>>
    /\ UNCHANGED routeVars

UpdateSupplier(a) ==
    /\ adm[a].pc = "update.supplier"
    /\ InsertSupplier(a, "update.commit")

\* COMMIT; res.json({message: "Part updated successfully"})
UpdateCommit(a) ==
    /\ adm[a].pc = "update.commit"
    /\ CommitTransaction(a, MessageResponse(200, "Part updated successfully"))
    /\ UNCHANGED <<controller, parts_catalog, inventory, now, req,
                   served, material, part_suppliers, faults, listing>>
    /\ UNCHANGED routeVars

\* GET /parts/:sku arrives and the SELECT of the catalog row is called.
GetPartReceive(a) ==
    /\ Accept(a)
    /\ \E sku \in Skus :
         adm' = [adm EXCEPT ![a] = Handling("getPartBySku", "get.part", sku, NoBody)]
    /\ UNCHANGED <<controller, parts_catalog, inventory, disk, inTx, now, req,
                   material, part_suppliers, faults, listing>>
    /\ UNCHANGED routeVars

\* The SELECT returns: 404 if no catalog row, else the SELECT of the
\* supplier rows is called.
GetPartSelect(a) ==
    /\ adm[a].pc = "get.part"
    /\ IF adm[a].sku \notin DOMAIN parts_catalog
       THEN AdmRespond(a, ErrorResponse(404, "Part not found"))
       ELSE adm' = [adm EXCEPT ![a].pc = "get.suppliers",
                               ![a].part = parts_catalog[adm[a].sku]]
    /\ UNCHANGED <<controller, parts_catalog, inventory, disk, inTx, now, req,
                   served, material, part_suppliers, faults, listing>>
    /\ UNCHANGED routeVars

\* The supplier rows return; res.json({...part, spec_definition, suppliers})
GetPartSuppliers(a) ==
    /\ adm[a].pc = "get.suppliers"
    /\ AdmRespond(a, DetailsResponse(
          PartDetails(adm[a].sku, adm[a].part,
                      {s \in part_suppliers : s.part_sku = adm[a].sku})))
    /\ UNCHANGED <<controller, parts_catalog, inventory, disk, inTx, now, req,
                   served, material, part_suppliers, faults, listing>>
    /\ UNCHANGED routeVars

\* ------------------------------------------------ the catalog, in sequence
\* The specification documents of the requests: the empty object, one
\* member, and a number next to a nested object.
Definitions ==
    {JObject(<<>>),
     JObject(<<Member("v_ceo", JString("50V"))>>),
     JObject(<<Member("pins", JNumber("8")),
               Member("max", JObject(<<Member("v", JString("8"))>>))>>)}

\* The values that each property of a body takes in the requests, besides
\* undefined.
Given(field) ==
    CASE field = "sku" -> {Js(""), Js("R-100"), Js("X-404")}
      [] field = "category" -> {Js("Diode")}
      [] field = "name" -> {Js(""), Js("Strip")}
      [] field \in {"mpn", "package_code", "image_url"} -> {Null, Js(""), Js("Z-9")}
      [] field = "unit" -> {Js(""), Js("cm")}
      [] field = "default_spec" -> {Null, Js(0), Js(1)}
      [] field = "spec_definition" ->
             {Null, Js(JString(""))} \cup {Js(d) : d \in Definitions}
      [] field = "suppliers" ->
             {Null, Js(<<>>), Js(<<"DGK">>), Js(<<"DGK", "RS">>)}

BodyFields ==
    {"sku", "category", "name", "mpn", "package_code", "spec_definition", "image_url",
     "default_spec", "unit", "suppliers"}

\* A body with every property given.
FullBody ==
    Body(Js("X-404"), Js("Diode"), Js("Strip"), Js("Z-9"), Js("Z-9"),
         Js(JObject(<<Member("v_ceo", JString("50V"))>>)), Js("Z-9"), Js(1), Js("cm"),
         Js(<<"DGK", "RS">>))

\* The bodies of PATCH /parts/:sku: nothing given, one property given, or
\* all of them given.
UpdateBodies ==
    {NoBody, FullBody}
      \cup UNION {{[NoBody EXCEPT ![field] = v] : v \in Given(field)} :
                     field \in BodyFields \ {"sku"}}

\* The bodies of POST /parts: the required properties given or not, and
\* with them one more property, or all of them.
CreateBodies ==
    {[NoBody EXCEPT !.sku = sku, !.category = category, !.name = name] :
        sku \in Given("sku") \cup {Undefined},
        category \in Given("category") \cup {Undefined},
        name \in Given("name") \cup {Undefined}}
      \cup {[FullBody EXCEPT !.sku = sku] : sku \in {Js("R-100"), Js("X-404")}}
      \cup UNION {{[NoBody EXCEPT !.sku = sku, !.category = Js("Diode"),
                                  !.name = Js("Strip"), ![field] = v] :
                       sku \in {Js("R-100"), Js("X-404")}, v \in Given(field)} :
                     field \in BodyFields \ {"sku", "category", "name"}}

\* R-100 is on file with every column filled and one supplier, W-200 with
\* its optional columns NULL and one supplier; each has one lot.
OnFile ==
    /\ controller \in Controllers
    /\ parts_catalog =
          [p \in {"R-100", "W-200"} |->
             IF p = "R-100"
             THEN FullRow("Reel", "Resistor", "M-0", "DIP8",
                          Stringify(JObject(<<Member("tol", JString("1%"))>>)),
                          "http", MaxSpec, "m",
                          JObject(<<Member("tol", JString("1%"))>>))
             ELSE FullRow("Wire", "Wire", NULL, NULL, <<>>, NULL, MaxSpec, "pcs",
                          JObject(<<>>))]
    /\ inventory = << Row("R-100", "A1", 1, 0, "NEW", 0),
                      Row("W-200", "B2", 1, 1, "SCRAP", 0) >>
    /\ part_suppliers = {SupplierRow("R-100", "AKI"), SupplierRow("W-200", "DGK")}
    /\ disk = [parts_catalog |-> parts_catalog, inventory |-> inventory,
               part_suppliers |-> part_suppliers]
    /\ inTx = FALSE
    /\ now = 0
    /\ req = [r \in Req |-> IdleReq]
    /\ served = 0
    /\ material = TotalMaterial(inventory, parts_catalog)
    /\ listing = NoListing
    /\ adm = [a \in Req |-> IdleAdm]
    /\ query = NoQuery
    /\ http = NoHttp

\* No statement fails.
InitCatalog == OnFile /\ faults = 0

\* The one handler slot of requests that come one after the other.
InTurn == {1}

NextCatalog ==
    \/ \E a \in InTurn : CreateReceive(a, CreateBodies)
    \/ \E a \in InTurn : CreateSelect(a)
    \/ \E a \in InTurn : CreateBegin(a)
    \/ \E a \in InTurn : CreateInsert(a)
    \/ \E a \in InTurn : CreateSupplier(a)
    \/ \E a \in InTurn : CreateCommit(a)
    \/ \E a \in InTurn : UpdateReceive(a, UpdateBodies)
    \/ \E a \in InTurn : UpdateSelect(a)
    \/ \E a \in InTurn : UpdateBegin(a)
    \/ \E a \in InTurn : UpdateCatalog(a)
    \/ \E a \in InTurn : UpdateDelete(a)
    \/ \E a \in InTurn : UpdateSupplier(a)
    \/ \E a \in InTurn : UpdateCommit(a)
    \/ \E a \in InTurn : DeleteReceive(a)
    \/ \E a \in InTurn : DeleteSelect(a)
    \/ \E a \in InTurn : DeleteBegin(a)
    \/ \E a \in InTurn : DeleteSuppliers(a)
    \/ \E a \in InTurn : DeleteCatalog(a)
    \/ \E a \in InTurn : DeleteCommit(a)
    \/ \E a \in InTurn : GetPartReceive(a)
    \/ \E a \in InTurn : GetPartSelect(a)
    \/ \E a \in InTurn : GetPartSuppliers(a)

\* createPart, updatePart, deletePart and getPartBySku, one request after
\* the other.
SpecCatalog == InitCatalog /\ [][NextCatalog]_vars

\* ------------------------------------- transactions on the one connection
\* The positions of a catalog handler whose statement is BEGIN TRANSACTION,
\* and those whose statement is inside the inner try.
BeginPositions == {"begin", "create.begin", "update.begin"}

InsideTry ==
    {"suppliers", "catalog", "commit",
     "create.insert", "create.supplier", "create.commit",
     "update.catalog", "update.delete", "update.supplier", "update.commit"}

\* A statement of a catalog handler throws and writes nothing: BEGIN is
\* outside the inner try, so the outer catch answers 500; inside the inner
\* try the catch calls ROLLBACK.
AdmStatementFails(a) ==
    /\ adm[a].pc \in BeginPositions \cup InsideTry
    /\ faults > 0
    /\ faults' = faults - 1
    /\ IF adm[a].pc \in BeginPositions
       THEN AdmRespond(a, ErrorResponse(500, "Internal Server Error"))
       ELSE adm' = [adm EXCEPT ![a].pc = "rollback"]
    /\ UNCHANGED <<controller, parts_catalog, inventory, disk, inTx, now, req, served,
                   material, part_suppliers, listing>>
    /\ UNCHANGED routeVars

\* await dbAsync.run("ROLLBACK"); throw err; and the outer catch answers 500.
AdmRollback(a) ==
    /\ adm[a].pc = "rollback"
    /\ inTx' = FALSE
    /\ inventory' = disk.inventory
    /\ parts_catalog' = disk.parts_catalog
    /\ part_suppliers' = disk.part_suppliers
    /\ AdmRespond(a, ErrorResponse(500, "Internal Server Error"))
    /\ UNCHANGED <<controller, disk, now, req, served, material, faults, listing>>
    /\ UNCHANGED routeVars

\* The ROLLBACK itself throws and does nothing: the throw leaves the inner
\* catch, the outer catch answers 500, and no statement follows.
AdmRollbackFails(a) ==
    /\ adm[a].pc = "rollback"
    /\ faults > 0
    /\ faults' = faults - 1
    /\ AdmRespond(a, ErrorResponse(500, "Internal Server Error"))
    /\ UNCHANGED <<controller, parts_catalog, inventory, disk, inTx, now, req, served,
                   material, part_suppliers, listing>>
    /\ UNCHANGED routeVars

\* The same in cutInventory of unnamed/part_003.
RollbackFails(r) ==
    /\ req[r].pc = "rollback"
    /\ faults > 0
    /\ faults' = faults - 1
    /\ Respond(r, ErrorResponse(500, "Internal Server Error"))
    /\ UNCHANGED <<controller, parts_catalog, inventory, disk, inTx, now, served,
                   material, part_suppliers, listing, adm>>
    /\ UNCHANGED routeVars

\* The bodies of the catalog requests that share the connection: a part
\* with two suppliers or none; a new default_spec, a new name with two
\* suppliers, the empty suppliers array, or nothing.
SharedCreateBodies ==
    {[FullBody EXCEPT !.sku = sku, !.suppliers = suppliers] :
        sku \in {Js("R-100"), Js("X-404")}, suppliers \in {Undefined, Js(<<"DGK", "RS">>)}}

SharedUpdateBodies ==
    {NoBody,
     [NoBody EXCEPT !.default_spec = Js(1)],
     [NoBody EXCEPT !.suppliers = Js(<<>>)],
     [NoBody EXCEPT !.name = Js("Strip"), !.suppliers = Js(<<"DGK", "RS">>)]}

\* Two statements may fail: one of a transaction, and its ROLLBACK.
InitShared == OnFile /\ faults = MaxTxFaults

NextShared ==
    \/ Next
    \/ \E r \in Req : StatementFails(r)
    \/ \E r \in Req : Rollback(r)
    \/ \E r \in Req : RollbackFails(r)
    \/ \E a \in Req : CreateReceive(a, SharedCreateBodies)
    \/ \E a \in Req : CreateSelect(a)
    \/ \E a \in Req : CreateBegin(a)
    \/ \E a \in Req : CreateInsert(a)
    \/ \E a \in Req : CreateSupplier(a)
    \/ \E a \in Req : CreateCommit(a)
    \/ \E a \in Req : UpdateReceive(a, SharedUpdateBodies)
    \/ \E a \in Req : UpdateSelect(a)
    \/ \E a \in Req : UpdateBegin(a)
    \/ \E a \in Req : UpdateCatalog(a)
    \/ \E a \in Req : UpdateDelete(a)
    \/ \E a \in Req : UpdateSupplier(a)
    \/ \E a \in Req : UpdateCommit(a)
    \/ \E a \in Req : DeleteReceive(a)
    \/ \E a \in Req : DeleteSelect(a)
    \/ \E a \in Req : DeleteBegin(a)
    \/ \E a \in Req : DeleteSuppliers(a)
    \/ \E a \in Req : DeleteCatalog(a)
    \/ \E a \in Req : DeleteCommit(a)
    \/ \E a \in Req : AdmStatementFails(a)
    \/ \E a \in Req : AdmRollback(a)
    \/ \E a \in Req : AdmRollbackFails(a)

\* cutInventory, createPart, updatePart and deletePart as concurrent
\* requests on the one connection, with failing statements.
SpecShared == InitShared /\ [][NextShared]_vars

TypeOK ==
    /\ controller \in Controllers
    /\ inTx \in BOOLEAN
    /\ now \in 0 .. MaxRequests
    /\ served \in 0 .. MaxRequests
    /\ \A r \in Req : req[r].pc \in {"idle", "get", "begin", "update", "insert", "commit",
                                     "rollback", "done"}

\* ================================================================ claims
Done(r) == req[r].pc = "done"

Ok(r) == Done(r) /\ req[r].res.status = 200

Failed(r, code, msg) ==
    Done(r) /\ req[r].res.status = code /\ req[r].res.error = msg

\* The request of handler r was accepted for lot id while that lot had
\* quantity q, with a non-zero useAmount within the lot's current spec.
ValidCutOf(r, id, q) ==
    /\ req[r].inventoryId = id
    /\ id \in DOMAIN req[r].pre
    /\ req[r].pre[id].quantity = q
    /\ req[r].pre[id].part_sku \in DOMAIN parts_catalog
    /\ req[r].useAmount > 0
    /\ req[r].useAmount <= EffectiveSpec(req[r].pre[id], parts_catalog)

\* C1: two cut requests in flight together against one lot with quantity 1
\* end with exactly one 200 and one 400 'Insufficient quantity', and the
\* lot's quantity is not below 0.
C1_OneSuccessOneInsufficient ==
    \A r1 \in Req, r2 \in Req, id \in DOMAIN inventory :
        (r1 # r2 /\ Done(r1) /\ Done(r2) /\ ValidCutOf(r1, id, 1) /\ ValidCutOf(r2, id, 1))
        => /\ \/ Ok(r1) /\ Failed(r2, 400, "Insufficient quantity")
              \/ Ok(r2) /\ Failed(r1, 400, "Insufficient quantity")
           /\ inventory[id].quantity >= 0

\* C2: a cut of u, 0 < u <= D, run alone on a NEW lot with quantity 1 and
\* catalog default_spec D answers 200 with remaining_spec D - u and leaves the
\* lot at quantity 0; for u < D exactly one row was added, a SCRAP row with
\* spec_value D - u and quantity 1; for u = D no row was added.
C2_NewLotCutAlone ==
    \A r \in Req :
        LET id == req[r].inventoryId
            pre == req[r].pre
            u == req[r].useAmount
        IN (Done(r) /\ req[r].alone /\ ValidCutOf(r, id, 1) /\ pre[id].condition = "NEW")
           => LET D == parts_catalog[pre[id].part_sku].default_spec
              IN /\ Ok(r)
                 /\ req[r].res.remaining_spec = D - u
                 /\ inventory[id].quantity = 0
                 /\ inventory[id].condition = "NEW"
                 /\ IF u < D
                    THEN /\ Len(inventory) = Len(pre) + 1
                         /\ inventory[Len(inventory)].condition = "SCRAP"
                         /\ inventory[Len(inventory)].spec_value = D - u
                         /\ inventory[Len(inventory)].quantity = 1
                    ELSE Len(inventory) = Len(pre)
                 /\ disk.inventory = inventory

C2_Witness ==
    \E r \in Req :
        LET id == req[r].inventoryId
        IN /\ Done(r) /\ req[r].alone /\ ValidCutOf(r, id, 1)
           /\ req[r].pre[id].condition = "NEW"
           /\ req[r].useAmount < parts_catalog[req[r].pre[id].part_sku].default_spec
           /\ Len(inventory) = Len(req[r].pre) + 1

\* C3: every inventory row, as the connection sees it and as committed, has
\* quantity >= 0 and spec_value >= 0.
C3_NonNegative ==
    /\ \A i \in DOMAIN inventory :
          inventory[i].quantity >= 0 /\ inventory[i].spec_value >= 0
    /\ \A i \in DOMAIN disk.inventory :
          disk.inventory[i].quantity >= 0 /\ disk.inventory[i].spec_value >= 0

\* The columns of a table without last_updated.
Columns(inv) ==
    [i \in DOMAIN inv |-> <<inv[i].part_sku, inv[i].location_code, inv[i].quantity,
                              inv[i].spec_value, inv[i].condition>>]

\* The committed inventory changes from `before` to `after` by one whole cut
\* of handler r: the decrement of its lot and, when the remainder is
\* positive, the SCRAP row carrying it; no row when the remainder is 0.
WholeCut(r, before, after, cat) ==
    LET id == req[r].inventoryId
    IN /\ id \in DOMAIN before
       /\ before[id].part_sku \in DOMAIN cat
       /\ LET row == before[id]
               rem == EffectiveSpec(row, cat) - req[r].useAmount
               dec == [Columns(before) EXCEPT ![id][3] = @ - 1]
           IN Columns(after) =
                IF rem > 0
                THEN Append(dec, <<row.part_sku, row.location_code, 1, rem, "SCRAP">>)
                ELSE dec

\* C4: the committed state never holds the decrement of a cut without its
\* remainder row, nor the row without the decrement: every change of the
\* committed inventory is one whole cut.
C4_DecrementWithRemainder ==
    [][disk'.inventory # disk.inventory
         => \E r \in Req :
              WholeCut(r, disk.inventory, disk'.inventory, disk.parts_catalog)]_vars

\* No handler is between its UPDATE and its response.
Quiescent == \A r \in Req : req[r].pc \notin {"insert", "commit"}

\* C5: whenever no cut is between its decrement and its response, the total
\* material (sum of quantity times effective spec) equals the initial total
\* minus the useAmount of every cut answered 200: a successful cut lowers the
\* total by exactly its useAmount, a failed cut leaves it unchanged.
C5_MaterialConserved ==
    Quiescent => TotalMaterial(inventory, parts_catalog) = material

C5_Witness ==
    /\ Quiescent
    /\ \E r \in Req : Ok(r) /\ req[r].res.remaining_spec > 0 /\ req[r].item.quantity > 1
    /\ \E r \in Req : Done(r) /\ req[r].res.status = 400

\* The lot a request names, as the connection sees it now.
LotExists(id) ==
    id \in DOMAIN inventory /\ inventory[id].part_sku \in DOMAIN parts_catalog

NoStoreChange ==
    /\ inventory' = inventory
    /\ parts_catalog' = parts_catalog
    /\ disk' = disk
    /\ inTx' = inTx

\* Handler r gets the result of its SELECT in this step.
Got(r) == req[r].pc = "get" /\ req'[r].pc # "get"

\* Handler r accepts a request in this step.
Received(r) ==
    /\ served' # served
    /\ req[r].pc \in {"idle", "done"}
    /\ req'[r].pc \in {"get", "done"}

\* C6: when the lot exists with quantity >= 1 and useAmount is greater than
\* its current spec, the cut answers 400 'Use amount exceeds current spec' in
\* the step that reads the lot, without any write and without a BEGIN.
C6_ExceedingAmountRejected ==
    [][\A r \in Req :
         LET id == req[r].inventoryId
         IN (Got(r) /\ LotExists(id) /\ inventory[id].quantity >= 1
               /\ req[r].useAmount > EffectiveSpec(inventory[id], parts_catalog))
            => /\ req'[r].pc = "done"
               /\ req'[r].res.status = 400
               /\ req'[r].res.error = "Use amount exceeds current spec"
               /\ NoStoreChange]_vars

C6_Witness ==
    \E r \in Req :
        /\ Failed(r, 400, "Use amount exceeds current spec")
        /\ LotExists(req[r].inventoryId)
        /\ inventory[req[r].inventoryId].quantity >= 1
        /\ inventory[req[r].inventoryId].condition = "NEW"

\* The request of handler r was accepted for an existing lot with quantity 0.
CutOfEmptyLot(r) ==
    LET id == req[r].inventoryId
    IN /\ Done(r)
       /\ id \in DOMAIN req[r].pre
       /\ req[r].pre[id].part_sku \in DOMAIN parts_catalog
       /\ req[r].pre[id].quantity = 0

\* C7 as stated: a cut of a lot with quantity 0 fails with 'Insufficient
\* quantity' for every value of useAmount.
C7_EmptyLotAnyAmount ==
    \A r \in Req :
        CutOfEmptyLot(r) => Failed(r, 400, "Insufficient quantity")

\* C7 amended: a cut of a lot with quantity 0 fails with 'Insufficient
\* quantity' (400) for every useAmount that is present and non-zero, and a
\* cut run alone leaves every row as it was.
C7_EmptyLotInsufficient ==
    \A r \in Req :
        (CutOfEmptyLot(r) /\ req[r].useAmount # 0)
        => /\ Failed(r, 400, "Insufficient quantity")
           /\ req[r].alone => (inventory = req[r].pre /\ disk.inventory = req[r].pre)

C7_Witness ==
    \E r \in Req :
        /\ CutOfEmptyLot(r)
        /\ req[r].alone
        /\ req[r].useAmount > EffectiveSpec(inventory[req[r].inventoryId], parts_catalog)
        /\ Failed(r, 400, "Insufficient quantity")

\* The status and error that the ordered checks of the claim give for a
\* request (id, u) in the current state; <<0, "">> when every check passes.
FirstFailingCheck(id, u) ==
    IF id = 0 \/ u = 0
    THEN <<400, "Inventory ID and use amount are required">>
    ELSE IF ~LotExists(id)
    THEN <<404, "Inventory item not found">>
    ELSE IF inventory[id].quantity < 1
    THEN <<400, "Insufficient quantity">>
    ELSE IF u > EffectiveSpec(inventory[id], parts_catalog)
    THEN <<400, "Use amount exceeds current spec">>
    ELSE <<0, "">>

\* C8: the checks run in the order required, not found, insufficient
\* quantity, exceeds spec; the response is that of the first failing check
\* and the failing request writes nothing; a request that passes the
\* required check goes on to read the lot, and one that passes every check
\* goes on to its writes.
C8_FirstFailingCheckWins ==
    [][\A r \in Req :
         (Received(r) \/ Got(r))
         => LET id == req'[r].inventoryId
                u == req'[r].useAmount
                first == FirstFailingCheck(id, u)
            IN IF Received(r) /\ first[2] # "Inventory ID and use amount are required"
               THEN req'[r].pc = "get" /\ NoStoreChange
               ELSE IF first = <<0, "">>
               THEN req'[r].pc \in {"begin", "update"} /\ NoStoreChange
               ELSE /\ req'[r].pc = "done"
                    /\ <<req'[r].res.status, req'[r].res.error>> = first
                    /\ NoStoreChange]_vars

C8_Witness ==
    /\ \E r \in Req :
          /\ Failed(r, 404, "Inventory item not found")
          /\ req[r].inventoryId \notin DOMAIN inventory
          /\ req[r].useAmount = 1
    /\ \E r \in Req :
          /\ Failed(r, 400, "Insufficient quantity")
          /\ req[r].useAmount > EffectiveSpec(inventory[req[r].inventoryId], parts_catalog)

\* Row `before` after one cut at time t.
Decremented(before, t) ==
    [before EXCEPT !.quantity = @ - 1, !.last_updated = t]

\* C9: the UPDATE of a cut lowers the quantity of its lot by exactly 1 and
\* sets its last_updated to the current time, whatever the useAmount; no
\* step changes any other column of any existing inventory row, removes a
\* row, or changes a catalog row.
C9_CutFrame ==
    [][/\ parts_catalog' = parts_catalog
       /\ \A r \in Req :
             (req[r].pc = "update" /\ req'[r].pc # "update")
             => inventory'[req[r].inventoryId]
                  = Decremented(inventory[req[r].inventoryId], now)
       /\ \A i \in DOMAIN inventory :
             /\ i \in DOMAIN inventory'
             /\ \/ inventory'[i] = inventory[i]
                \/ /\ inventory'[i] = Decremented(inventory[i], now)
                   /\ \E r \in Req : /\ req[r].pc = "update"
                                      /\ req'[r].pc # "update"
                                      /\ req[r].inventoryId = i]_vars

C9_Witness ==
    \E r \in Req :
        LET id == req[r].inventoryId
        IN /\ Ok(r)
           /\ req[r].alone
           /\ req[r].pre[id].condition = "NEW"
           /\ req[r].pre[id].quantity = 2
           /\ inventory[id] = Decremented(req[r].pre[id], now)
           /\ Len(inventory) > Len(req[r].pre)

\* C10: a 200 response carries original_id = inventoryId and remaining_spec =
\* currentSpec - useAmount, currentSpec being the catalog default_spec of a
\* NEW lot and the spec_value of a SCRAP lot; for a cut run alone
\* remaining_spec is 0 exactly when no remainder row was added.
C10_RemainingSpec ==
    \A r \in Req :
        Ok(r)
        => LET id == req[r].inventoryId
           IN /\ req[r].res.original_id = id
              /\ req[r].res.remaining_spec
                    = EffectiveSpec(inventory[id], parts_catalog) - req[r].useAmount
              /\ req[r].alone
                    => (req[r].res.remaining_spec = 0 <=> Len(inventory) = Len(req[r].pre))

C10_Witness ==
    \E r \in Req :
        LET row == inventory[req[r].inventoryId]
        IN /\ Ok(r)
           /\ row.condition = "NEW"
           /\ row.spec_value # parts_catalog[row.part_sku].default_spec
           /\ req[r].res.remaining_spec > 0

\* C13: a cut never deletes an inventory row: in every step every row id
\* of the table is still a row id afterwards, and a lot whose quantity is 0
\* keeps quantity 0.
C13_RowsStay ==
    [][\A i \in DOMAIN inventory :
          /\ i \in DOMAIN inventory'
          /\ inventory[i].quantity = 0 => inventory'[i].quantity = 0]_vars

\* C11: a cut whose store statement failed is answered 500 with the
\* committed inventory equal to the one before the request (for a request
\* run alone), and no getParts ever reads the lots in the middle of a cut,
\* that is with the decrement applied and the remainder row not yet added.
C11_AllOrNothing ==
    /\ \A r \in Req :
          (Failed(r, 500, "Internal Server Error") /\ req[r].alone)
          => disk.inventory = req[r].pre
    /\ ~listing.midCut

\* C12: a deletePart of a SKU that has a lot with quantity > 0 is not
\* answered 204, and no committed inventory row with quantity > 0 names a
\* part_sku that is absent from the committed catalog.
C12_NoOrphanLiveLot ==
    /\ \A a \in Req :
          (/\ adm[a].pc = "done"
           /\ \E i \in DOMAIN inventory : /\ inventory[i].part_sku = adm[a].sku
                                          /\ inventory[i].quantity > 0)
          => adm[a].res.status # 204
    /\ \A i \in DOMAIN disk.inventory :
          disk.inventory[i].quantity > 0
          => disk.inventory[i].part_sku \in DOMAIN disk.parts_catalog

IsPlaceholder(token) == token.text = "?"

\* The placeholders of a query text, left to right.
Placeholders(sql) == SelectSeq(sql, IsPlaceholder)

\* C14: the query text that getParts builds has exactly as many "?"
\* placeholders as the parameter list has entries, and the i-th placeholder
\* from the left was appended by the block that pushed the i-th parameter.
C14_PlaceholdersMatchParams ==
    query.compiled
    => LET holes == Placeholders(query.sql)
       IN /\ Len(holes) = Len(query.params)
          /\ \A i \in 1 .. Len(holes) : holes[i].of = query.params[i].of

C14_Witness ==
    /\ query.compiled
    /\ \A facet \in FacetNames : Truthy(query.filters[facet])
    /\ query.filters.package_code.kind = "array"
    /\ Len(query.filters.package_code.items) = 2
    /\ Len(query.params) = 9

\* The values bound for one facet, in the order of the parameter list.
BoundFor(facet) ==
    LET Mine(p) == p.of = facet
        mine == SelectSeq(query.params, Mine)
    IN [i \in 1 .. Len(mine) |-> mine[i].bound]

\* The non-empty values of a multi-valued input, trimmed, in input order.
TrimmedValues(v) ==
    LET given == IF v.kind = "array" THEN v.items ELSE Split(v.items[1], {Comma})
    IN SelectSeq([i \in 1 .. Len(given) |-> Trim(given[i])], NonEmpty)

\* The text of the AND group of k equality clauses on a column joined by OR.
OrGroupText(column, k) ==
    IF k = 0 THEN <<>>
    ELSE <<" AND (p." \o column \o " = ">>
           \o [i \in 1 .. (2 * k - 1) |->
                  IF i % 2 = 1 THEN "?" ELSE " OR p." \o column \o " = "]
           \o <<")">>

\* The text that the blocks of one facet appended.
TextOf(facet) ==
    LET Mine(t) == t.of = facet
        mine == SelectSeq(query.sql, Mine)
    IN [i \in 1 .. Len(mine) |-> mine[i].text]

\* C15: for category and package_code given as a comma-separated string or
\* as an array, the values bound are the non-empty values of the input,
\* trimmed, in input order; the text appended is one AND group of that many
\* equality clauses joined by OR; and a column value satisfies the facet iff
\* it is one of those values.
C15_TrimmedValuesOred ==
    query.compiled
    => \A facet \in {"category", "package_code"} :
          LET v == query.filters[facet]
              wanted == IF Truthy(v) THEN TrimmedValues(v) ELSE <<>>
          IN /\ BoundFor(facet) = [i \in 1 .. Len(wanted) |-> StringValue(wanted[i])]
             /\ TextOf(facet) = OrGroupText(facet, Len(wanted))
             /\ \A column \in Str(Alphabet(facet), 1) :
                   (\E i \in 1 .. Len(BoundFor(facet)) :
                       BoundFor(facet)[i] = StringValue(column))
                   <=> (\E i \in 1 .. Len(wanted) : wanted[i] = column)

\* The non-empty tokens of a text between runs of ASCII or full-width
\* white space.
WhiteSpaceTokens(text) == SelectSeq(Split(text, WhiteSpace), NonEmpty)

\* C16: the description is split on runs of ASCII or full-width white
\* space; each non-empty token, in order, gets its own AND'd substring
\* clause bound to '%token%'; a description of white space only adds none.
C16_OneClausePerToken ==
    query.compiled
    => LET v == query.filters.description
           tokens == IF Truthy(v) THEN WhiteSpaceTokens(StringOf(v)) ELSE <<>>
       IN /\ BoundFor("description")
                = [i \in 1 .. Len(tokens) |-> StringValue(Wrap(tokens[i]))]
          /\ TextOf("description")
                = [i \in 1 .. (2 * Len(tokens)) |->
                     IF i % 2 = 1 THEN " AND p.description LIKE " ELSE "?"]

\* The place of a facet in the fixed order; the base query comes first.
Place(of) ==
    IF of = "base" THEN 0 ELSE CHOOSE i \in 1 .. Len(Facets) : Facets[i] = of

\* A facet that is not given, or a multi-valued facet without any
\* non-empty value.
AddsNothing(facet, v) ==
    \/ ~Truthy(v)
    \/ facet \in {"category", "package_code"} /\ TrimmedValues(v) = <<>>

\* C17: clauses and parameters follow the fixed order name, sku,
\* supplier_code, package_code, category, description, q; a facet that is
\* absent, or a multi-valued facet with no non-empty value, adds neither a
\* clause nor a parameter; with no facet present the query is the base
\* query with zero parameters.
C17_FixedOrderAbsentAddsNothing ==
    query.compiled
    => /\ \A i, j \in 1 .. Len(query.params) :
             i < j => Place(query.params[i].of) <= Place(query.params[j].of)
       /\ \A i, j \in 1 .. Len(query.sql) :
             i < j => Place(query.sql[i].of) <= Place(query.sql[j].of)
       /\ \A facet \in FacetNames :
             AddsNothing(facet, query.filters[facet])
             => BoundFor(facet) = <<>> /\ TextOf(facet) = <<>>
       /\ (\A facet \in FacetNames : query.filters[facet] = Absent)
             => query.sql = BaseQuery.sql /\ query.params = <<>>

\* The text of n repetitions of one clause with its placeholder.
Repeated(text, n) == [i \in 1 .. (2 * n) |-> IF i % 2 = 1 THEN text ELSE "?"]

\* The text that a facet contributes when it binds n values: nothing of it
\* comes from the input.
ClauseText(facet, n) ==
    CASE n = 0 -> <<>>
      [] n > 0 /\ facet = "name" -> Repeated(" AND p.name LIKE ", 1)
      [] n > 0 /\ facet = "sku" -> Repeated(" AND p.sku LIKE ", 1)
      [] n > 0 /\ facet = "supplier_code" -> Repeated(" AND s.supplier_code = ", 1)
      [] n > 0 /\ facet \in {"package_code", "category"} -> OrGroupText(facet, n)
      [] n > 0 /\ facet = "description" -> Repeated(" AND p.description LIKE ", n)
      [] n > 0 /\ facet = "q" ->
             <<" AND (p.sku LIKE ", "?", " OR p.name LIKE ", "?", ")">>

C19_OnlyLiveLotsListed ==
    (controller = "plain" /\ listing.status = 200)
    => \A row \in listing.rows : row.lot /\ row.quantity > 0

\* The tokens that login has signed and that have not expired, with the
\* role they carry.
IssuedRole(token) ==
    CASE token = "jwt-admin" -> "admin"
      [] token = "jwt-user" -> "user"
      [] OTHER -> ""

\* The token of a request: what follows the scheme and one space, "" if
\* the header is missing or has no such piece.
Credential(header) == IF Len(header) = 2 THEN header[2] ELSE ""

\* The handler that a method and path are meant for, "" if none.
HandlerFor(method, path) ==
    CASE method = "GET" /\ path = "/" -> "getParts"
      [] method = "GET" /\ path = "/R-100" -> "getPartBySku"
      [] method = "POST" /\ path = "/cut" -> "cutInventory"
      [] method = "POST" /\ path = "/" -> "createPart"
      [] method = "PATCH" /\ path # "/" -> "updatePart"
      [] method = "DELETE" /\ path # "/" -> "deletePart"
      [] OTHER -> ""

AdminHandlers == {"createPart", "updatePart", "deletePart"}

\* C20: no handler runs without a valid token (no token: 401, invalid
\* token: 403); createPart, updatePart and deletePart run only for a token
\* with role admin (otherwise 403); getParts, getPartBySku and cutInventory
\* run for every valid token.
C20_HandlersGated ==
    LET token == Credential(http.header)
        role == IssuedRole(token)
        target == HandlerFor(http.method, http.path)
    IN /\ http.ran # "" => role # ""
       /\ http.ran \in AdminHandlers => role = "admin"
       /\ http.pc = "done"
            => /\ token = "" => (http.res.status = 401 /\ http.ran = "")
               /\ (token # "" /\ role = "") => (http.res.status = 403 /\ http.ran = "")
               /\ (role = "user" /\ target \in AdminHandlers)
                     => (http.res.status = 403 /\ http.ran = "")
               /\ (role # "" /\ target # "" /\ target \notin AdminHandlers)
                     => http.ran = target
               /\ (role = "admin" /\ target # "") => http.ran = target

C20_Witness ==
    /\ http.pc = "done"
    /\ http.ran = "deletePart"
    /\ http.role = "admin"
    /\ http.method = "DELETE"

RECURSIVE Contains(_, _)
\* The string s has the string q as a substring.
Contains(s, q) ==
    \/ Len(q) <= Len(s) /\ SubSeq(s, 1, Len(q)) = q
    \/ s # <<>> /\ Contains(Tail(s), q)

OnlyQ == \A facet \in FacetNames \ {"q"} : query.filters[facet] = Absent

\* C25: for a q that is given, getParts appends exactly one AND group, sku
\* LIKE ? OR name LIKE ?, and binds the value '%q%' twice; and when q is the
\* only parameter, every catalog entry whose sku contains q is in the answer.
C25_QMatchesSkuOrName ==
    LET q == query.filters.q
        keyword == StringValue(<<"%">> \o StringOf(q) \o <<"%">>)
        group == SelectSeq(query.sql, LAMBDA token : token.of = "q")
    IN  /\ query.compiled /\ Truthy(q)
           => /\ [i \in 1 .. Len(group) |-> group[i].text]
                   = <<" AND (p.sku LIKE ", "?", " OR p.name LIKE ", "?", ")">>
              /\ BoundFor("q") = <<keyword, keyword>>
        /\ listing # NoListing /\ Truthy(q) /\ OnlyQ
           => \A p \in DOMAIN parts_catalog :
                 Contains(parts_catalog[p].sku, StringOf(q))
                 => FoundPart(parts_catalog[p]) \in listing.rows

\* A search for "A_" alone has answered, with the part A_ and without the
\* part b.
C25_Witness ==
    /\ listing # NoListing
    /\ OnlyQ
    /\ query.filters.q = StringValue(<<"A", "_">>)
    /\ Len(query.params) = 2
    /\ \E row \in listing.rows : row.sku = <<"A", "_">>
    /\ \A row \in listing.rows : row.sku # <<"b">>

\* C29: a cut never creates material: the remainder that a successful
\* cutInventory returns, which is the spec_value of the SCRAP row it inserts,
\* is strictly less than the current spec of the lot that it read.
C29_CutNeverCreatesMaterial ==
    \A r \in Req : Ok(r) => req[r].res.remaining_spec < CurrentSpec(req[r].item)

\* The handler in slot a has answered a request of the handler `op`.
Answered(a, op) == adm[a].pc = "done" /\ "op" \in DOMAIN adm[a] /\ adm[a].op = op

\* The store as the connection sees it.
View ==
    [parts_catalog |-> parts_catalog, inventory |-> inventory,
     part_suppliers |-> part_suppliers]

\* The store is as it was when the request of slot a arrived, and no
\* transaction is open.
Untouched(a) == disk = adm[a].pre /\ View = disk /\ ~inTx

\* C21: createPart answers 400 and writes nothing when sku, category or
\* name is missing, also when the sku is on file; else it answers 409 and
\* writes nothing when the sku is on file; else it answers 201 and the
\* committed store has gained exactly one catalog row, with default_spec 0
\* and unit 'pcs' where the body omits them, and one supplier row for each
\* supplier of the body.
C21_CreatePart ==
    \A a \in Req :
       Answered(a, "createPart")
       => LET body == adm[a].body
              pre == adm[a].pre
              list == IF IsArray(body.suppliers) THEN body.suppliers.v ELSE <<>>
          IN IF ~TruthyText(body.sku) \/ ~TruthyText(body.category) \/ ~TruthyText(body.name)
             THEN adm[a].res.status = 400 /\ Untouched(a)
             ELSE IF body.sku.v \in DOMAIN pre.parts_catalog
             THEN adm[a].res.status = 409 /\ Untouched(a)
             ELSE /\ adm[a].res.status = 201
                  /\ View = disk /\ ~inTx
                  /\ DOMAIN disk.parts_catalog = DOMAIN pre.parts_catalog \cup {body.sku.v}
                  /\ \A p \in DOMAIN pre.parts_catalog :
                        disk.parts_catalog[p] = pre.parts_catalog[p]
                  /\ disk.parts_catalog[body.sku.v].name = body.name.v
                  /\ disk.parts_catalog[body.sku.v].category = body.category.v
                  /\ body.default_spec = Undefined
                        => disk.parts_catalog[body.sku.v].default_spec = 0
                  /\ body.unit = Undefined
                        => disk.parts_catalog[body.sku.v].unit = "pcs"
                  /\ disk.part_suppliers \ pre.part_suppliers
                        = {SupplierRow(body.sku.v, list[i]) : i \in 1 .. Len(list)}
                  /\ Cardinality(disk.part_suppliers \ pre.part_suppliers) = Len(list)
                  /\ pre.part_suppliers \subseteq disk.part_suppliers
                  /\ disk.inventory = pre.inventory

\* X-404 was created from a body without default_spec and unit and with
\* two suppliers.
C21_Witness ==
    /\ Answered(1, "createPart")
    /\ adm[1].res.status = 201
    /\ adm[1].body.default_spec = Undefined
    /\ IsArray(adm[1].body.suppliers)
    /\ Len(adm[1].body.suppliers.v) = 2
    /\ disk.parts_catalog["X-404"].unit = "pcs"
    /\ Cardinality(disk.part_suppliers) = 4

CatalogFields ==
    {"name", "category", "mpn", "package_code", "spec_definition", "image_url",
     "default_spec", "unit"}

\* The column `field` holds the body property x: null as NULL, a document as
\* its JSON text, any other value as itself.  default_spec never holds NULL.
Holds(field, x, column) ==
    IF x.kind = "null"
    THEN CASE field = "spec_definition" -> column = <<>>
           [] field = "default_spec" -> FALSE
           [] OTHER -> column = NULL
    ELSE IF field = "spec_definition"
         THEN column # <<>> /\ JSONParse(column) = x.v
         ELSE column = x.v

\* The property x of a PATCH body changes its column: it is given and not
\* null, and as spec_definition it is truthy.
Changes(field, x) ==
    IF field = "spec_definition" THEN TruthyJson(x) ELSE x.kind = "value"

\* An updatePart request is over: 404 and nothing changed for a sku that was
\* not on file; else 200, the same skus on file, every other row as before,
\* and each column of the row either as before or holding the body's value,
\* as Kept(field, x) says.
UpdateDone(a, Kept(_, _)) ==
    LET sku == adm[a].sku
        pre == adm[a].pre
    IN IF sku \notin DOMAIN pre.parts_catalog
       THEN adm[a].res.status = 404 /\ Untouched(a)
       ELSE /\ adm[a].res.status = 200
            /\ DOMAIN disk.parts_catalog = DOMAIN pre.parts_catalog
            /\ \A p \in DOMAIN pre.parts_catalog \ {sku} :
                  disk.parts_catalog[p] = pre.parts_catalog[p]
            /\ \A field \in CatalogFields :
                  IF Kept(field, adm[a].body[field])
                  THEN disk.parts_catalog[sku][field] = pre.parts_catalog[sku][field]
                  ELSE Holds(field, adm[a].body[field], disk.parts_catalog[sku][field])

\* C22 as stated: after a successful PATCH each catalog field that is absent
\* from the body is as before and each field that is in the body, null
\* included, holds the value of the body; the sku stays; a PATCH on a sku
\* that is not on file answers 404 and changes nothing.
C22_SuppliedFieldsStored ==
    \A a \in Req :
       Answered(a, "updatePart") => UpdateDone(a, LAMBDA field, x : x = Undefined)

\* C22, amended: after a successful PATCH each catalog field that is absent
\* from the body, or null in it, is as before (and so is spec_definition
\* when the body gives it a falsy value), and each field that the body gives
\* a value holds that value; the sku stays; a PATCH on a sku that is not on
\* file answers 404 and changes nothing.
C22_GivenValuesStored ==
    \A a \in Req :
       Answered(a, "updatePart") => UpdateDone(a, LAMBDA field, x : ~Changes(field, x))

\* A PATCH of R-100 that gives only default_spec 0 was answered 200: the
\* default_spec is 0 and the name is the old one.
C22_Witness ==
    /\ Answered(1, "updatePart")
    /\ adm[1].res.status = 200
    /\ adm[1].sku = "R-100"
    /\ adm[1].body.default_spec = Js(0)
    /\ adm[1].body.name = Undefined
    /\ disk.parts_catalog["R-100"].default_spec = 0
    /\ disk.parts_catalog["R-100"].name = "Reel"

\* The document of a body: the object that spec_definition gives.
IsDocument(x) == x.kind = "value" /\ x.v.type = "object"

\* C26: the specification document makes the round trip: the row that a
\* createPart or updatePart has written for a body whose spec_definition is
\* an object d stands for d, the row of a createPart without spec_definition
\* stands for the empty object, and getPartBySku answers, as an object and
\* deep-equal, the document that the row stood for when the request arrived.
C26_DocumentRoundTrip ==
    \A a \in Req :
       /\ Answered(a, "createPart") /\ adm[a].res.status = 201
          => disk.parts_catalog[adm[a].sku].given
                = IF IsDocument(adm[a].body.spec_definition)
                  THEN adm[a].body.spec_definition.v
                  ELSE IF adm[a].body.spec_definition = Undefined THEN JObject(<<>>)
                  ELSE disk.parts_catalog[adm[a].sku].given
       /\ Answered(a, "updatePart") /\ adm[a].res.status = 200
             /\ IsDocument(adm[a].body.spec_definition)
          => disk.parts_catalog[adm[a].sku].given = adm[a].body.spec_definition.v
       /\ Answered(a, "getPartBySku") /\ adm[a].res.status = 200
          => /\ adm[a].res.details.spec_definition.type = "object"
             /\ adm[a].res.details.spec_definition
                  = adm[a].pre.parts_catalog[adm[a].sku].given

\* getPartBySku has answered for X-404, which the request before it created
\* with a document of two members, one of them an object.
C26_Witness ==
    /\ Answered(1, "getPartBySku")
    /\ adm[1].res.status = 200
    /\ adm[1].sku = "X-404"
    /\ Len(adm[1].res.details.spec_definition.members) = 2
    /\ adm[1].res.details.spec_definition.members[2].value.type = "object"

\* C24: deletePart on a sku that is on file answers 204, and then the
\* committed store holds neither the catalog row nor any supplier row of the
\* sku, and every other row as before; on a sku that is not on file it
\* answers 404 and changes nothing.  getPartBySku answers 404 exactly for
\* a sku that is not on file when the request arrives, and a sku comes on
\* file only by a createPart that is answered 201.
C24_DeleteThenNotFound ==
    /\ [](\A a \in Req :
             /\ Answered(a, "deletePart")
                => LET sku == adm[a].sku
                       pre == adm[a].pre
                   IN IF sku \in DOMAIN pre.parts_catalog
                      THEN /\ adm[a].res.status = 204
                           /\ View = disk /\ ~inTx
                           /\ DOMAIN disk.parts_catalog = DOMAIN pre.parts_catalog \ {sku}
                           /\ \A p \in DOMAIN disk.parts_catalog :
                                 disk.parts_catalog[p] = pre.parts_catalog[p]
                           /\ disk.part_suppliers
                                = {s \in pre.part_suppliers : s.part_sku # sku}
                           /\ disk.inventory = pre.inventory
                      ELSE adm[a].res.status = 404 /\ Untouched(a)
             /\ Answered(a, "getPartBySku")
                => (adm[a].res.status = 404
                      <=> adm[a].sku \notin DOMAIN adm[a].pre.parts_catalog))
    /\ [][\A sku \in Skus :
             sku \notin DOMAIN disk.parts_catalog /\ sku \in DOMAIN disk'.parts_catalog
             => \E a \in Req : /\ adm[a].pc = "create.commit"
                               /\ adm[a].sku = sku
                               /\ adm'[a].res.status = 201]_vars

\* getPartBySku has answered 404 for R-100, which the request before it
\* deleted together with its supplier row.
C24_Witness ==
    /\ Answered(1, "getPartBySku")
    /\ adm[1].sku = "R-100"
    /\ adm[1].res.status = 404
    /\ \A s \in disk.part_suppliers : s.part_sku # "R-100"

\* The committed supplier rows of one sku.
SuppliersOf(store, sku) == {s \in store.part_suppliers : s.part_sku = sku}

\* The handler in slot a is an updatePart handler that takes the step.
UpdateStep(a) ==
    /\ "op" \in DOMAIN adm[a] /\ adm[a].op = "updatePart"
    /\ adm[a].pc # "done"
    /\ adm'[a] # adm[a]

\* C23: the step that ends an updatePart request with 200 commits, for its
\* sku, exactly the suppliers of the body when the body has a suppliers
\* array (none for the empty array) and the supplier rows as they were when
\* it has none; every other step of an updatePart handler, the steps of a
\* failed request included, leaves the committed catalog and the committed
\* supplier rows as they are; and the committed supplier rows of a sku change
\* in no step but the COMMIT of a catalog handler.
C23_SuppliersReplacedWhole ==
    [][/\ \A a \in Req :
             UpdateStep(a)
             => IF adm'[a].pc = "done" /\ adm'[a].res.status = 200
                THEN /\ SuppliersOf(disk', adm[a].sku)
                          = IF IsArray(adm[a].body.suppliers)
                            THEN {SupplierRow(adm[a].sku, adm[a].body.suppliers.v[i]) :
                                     i \in 1 .. Len(adm[a].body.suppliers.v)}
                            ELSE SuppliersOf(disk, adm[a].sku)
                     /\ \A sku \in Skus \ {adm[a].sku} :
                           SuppliersOf(disk', sku) = SuppliersOf(disk, sku)
                ELSE /\ disk'.part_suppliers = disk.part_suppliers
                     /\ disk'.parts_catalog = disk.parts_catalog
       /\ disk'.part_suppliers # disk.part_suppliers
          => \E a \in Req : /\ adm[a].pc \in {"commit", "create.commit", "update.commit"}
                            /\ adm'[a].pc = "done"
                            /\ adm'[a].res.status < 300]_vars

\* An updatePart of R-100 with two suppliers has been answered 200 and its
\* two supplier rows are the committed ones; the other request had failed
\* in its transaction and was rolled back.
C23_Witness ==
    \E a \in Req :
       /\ Answered(a, "updatePart")
       /\ adm[a].sku = "R-100"
       /\ adm[a].res.status = 200
       /\ IsArray(adm[a].body.suppliers)
       /\ SuppliersOf(disk, "R-100") = {SupplierRow("R-100", "DGK"), SupplierRow("R-100", "RS")}
       /\ \E o \in Req \ {a} : Answered(o, "updatePart") /\ adm[o].res.status = 500
       /\ faults < MaxTxFaults

\* The cut handler r, or the catalog handler a, is between its BEGIN
\* TRANSACTION and its COMMIT or ROLLBACK.
CutHolds(r) == controller = "tx" /\ req[r].pc \in {"update", "insert", "commit", "rollback"}

AdmHolds(a) == adm[a].pc \in InsideTry \cup {"rollback"}

\* The step executes a statement of the cut handler r, or of the catalog
\* handler a.
CutStatement(r) == req[r].pc \notin {"idle", "done"} /\ req'[r].pc # req[r].pc

AdmStatement(a) == adm[a].pc \notin {"idle", "done"} /\ adm'[a] # adm[a]

\* The statements of two requests are never in one transaction.
Exclusive ==
    /\ \A r \in Req :
          CutHolds(r) => /\ \A o \in Req \ {r} : ~CutStatement(o)
                         /\ \A a \in Req : ~AdmStatement(a)
    /\ \A a \in Req :
          AdmHolds(a) => /\ \A o \in Req \ {a} : ~AdmStatement(o)
                         /\ \A r \in Req : ~CutStatement(r)

\* The decrement of every cut that was answered 200 is committed once no
\* transaction is open.
NothingDiscarded ==
    \A r \in Req :
       Ok(r) /\ ~inTx /\ req[r].inventoryId \in DOMAIN req[r].pre
       => disk.inventory[req[r].inventoryId].quantity
             < req[r].pre[req[r].inventoryId].quantity

\* C27: while one request is between its BEGIN and its COMMIT or ROLLBACK no
\* statement of another request executes on the connection, and no ROLLBACK
\* discards the write of a request that was answered 200.
C27_OneRequestPerTransaction == [][Exclusive]_vars /\ []NothingDiscarded

\* No handler is at work.
AllAnswered ==
    /\ \A r \in Req : req[r].pc \in {"idle", "done"}
    /\ \A a \in Req : adm[a].pc \in {"idle", "done"}

\* C28: every transaction is released on every exit path: the step in which
\* a handler that is between its BEGIN and its COMMIT or ROLLBACK sends its
\* response leaves no transaction open, and no transaction is open once
\* every request is answered.
C28_TransactionReleased ==
    /\ [][/\ \A r \in Req : CutHolds(r) /\ req'[r].pc = "done" => ~inTx'
          /\ \A a \in Req : AdmHolds(a) /\ adm'[a].pc = "done" => ~inTx']_vars
    /\ [](AllAnswered => ~inTx)

\* The step commits the decrement of the cut r: its COMMIT (part_003), or
\* its UPDATE run outside every transaction (partsController.ts).
CommitsDecrement(r) ==
    \/ controller = "tx" /\ req[r].pc = "commit" /\ req'[r].res.status = 200
    \/ controller = "plain" /\ req[r].pc = "update" /\ ~inTx
          /\ inventory' # inventory

\* C30: when the decrement of a cut on a NEW lot is committed and a SCRAP
\* remainder goes with it, the remainder's spec_value is the default_spec
\* the catalog commits to at that step minus useAmount.
C30_RemainderOfDefaultInForce ==
    [][\A r \in Req :
          /\ CommitsDecrement(r)
          /\ req[r].item.condition = "NEW"
          /\ req[r].remainingSpec > 0
          /\ req[r].item.part_sku \in DOMAIN disk'.parts_catalog
          => req[r].remainingSpec
                = disk'.parts_catalog[req[r].item.part_sku].default_spec
                     - req[r].useAmount]_vars

\* Two createPart requests for the same sku, both answered, neither of which
\* found the sku committed on its arrival, and no statement failed in the
\* store.
SameNewSku(a, b) ==
    /\ a # b
    /\ Answered(a, "createPart") /\ Answered(b, "createPart")
    /\ adm[a].sku # "" /\ adm[a].sku = adm[b].sku
    /\ adm[a].sku \notin DOMAIN adm[a].pre.parts_catalog
    /\ adm[b].sku \notin DOMAIN adm[b].pre.parts_catalog
    /\ faults = MaxTxFaults

\* C31: of two interleaved createPart requests for the same new sku one is
\* answered 201 and the other 409, and the store then holds the catalog row
\* of that sku with exactly the suppliers of the request answered 201.
C31_OneCreatedOtherConflict ==
    \A a \in Req, b \in Req :
       SameNewSku(a, b) /\ ~inTx
       => /\ {adm[a].res.status, adm[b].res.status} = {201, 409}
          /\ adm[a].sku \in DOMAIN disk.parts_catalog
          /\ adm[a].res.status = 201
               => SuppliersOf(disk, adm[a].sku)
                     = IF IsArray(adm[a].body.suppliers)
                       THEN {SupplierRow(adm[a].sku, adm[a].body.suppliers.v[k]) :
                                k \in 1 .. Len(adm[a].body.suppliers.v)}
                       ELSE {}
====
